---- MODULE Spec2Model ----
(***************************************************************************)
(* The ingestion job pipeline of the data-pipeline service: the Redis job  *)
(* queue (shared/common/redis_client.py), the job-status table             *)
(* (shared/common/db_client.py), the service's startup, its POST /ingest   *)
(* handler and its worker loop (services/data-pipeline-service/main.py)    *)
(* and DataPipeline.run (services/data-pipeline-service/pipeline.py).      *)
(***************************************************************************)
EXTENDS Integers, Sequences, FiniteSets, TLC

\* ------------------------------------------------------------------ bounds
\* Number of job ids (uuid4 values) the service mints in one behaviour.
MaxJobs == 2

\* Number of collaborator failures (a Redis error, a failed SQL statement, a
\* failed initialisation, a failed index call) in one behaviour.
MaxFaults == 1

\* ------------------------------------------------------- program constants
ChunkSize == 1000
ChunkOverlap == 200
WorkerTimeout == 5
PollSleep == 1
BackoffSleep == 5

JobIds == 1..MaxJobs

\* Optional[T]: None is the empty tuple, a value x is <<x>>.
None == <<>>
Some(x) == <<x>>

\* ------------------------------------------------------------- documents
\* A document is its source and the length of its text.  DataDragon pages
\* are rendered from a non-empty template; a scraped page may have no text.
DataDragonDocs == {[source |-> "DataDragon", len |-> l] : l \in {400, 1500}}
WebScraperDocs == {[source |-> "WebScraper", len |-> l] : l \in {0, 400}}
RiotDocs == {[source |-> "RiotAPI", len |-> 400]}
StaleDoc == [source |-> "SampleData", len |-> 400]

\* ----------------------------------------------------- LoLDataCollector
\* src/data_collector.py.  A collector is known by its name.
CollectorNames == {"DataDragon", "WebScraper", "RiotAPI", "SampleData"}

\* DataSourceConfig: which sources are switched on.
DataSourceConfigs == [use_data_dragon : BOOLEAN, use_web_scraper : BOOLEAN,
                      use_riot_api : BOOLEAN, use_sample_data : BOOLEAN]

\* SampleDataCollector.collect builds the same hardcoded documents on every
\* call and calls nothing that can fail; two documents stand for the list.
SampleCollect == <<[source |-> "SampleData", len |-> 400], [source |-> "SampleData", len |-> 300]>>

\* What one collect() call comes to: it raises, or it returns a list.
Raised == [raised |-> TRUE, docs |-> <<>>]
Returned(docs) == [raised |-> FALSE, docs |-> docs]

Yields(name) ==
    CASE name = "SampleData" -> {Returned(SampleCollect)}
      [] name = "DataDragon" ->
            {Raised, Returned(<<>>),
             Returned(<<[source |-> "DataDragon", len |-> 400],
                        [source |-> "DataDragon", len |-> 1500]>>)}
      [] name = "WebScraper" ->
            {Raised, Returned(<<>>),
             Returned(<<[source |-> "WebScraper", len |-> 0]>>),
             Returned(<<[source |-> "WebScraper", len |-> 400],
                        [source |-> "WebScraper", len |-> 0]>>)}
      [] name = "RiotAPI" ->
            {Raised, Returned(<<>>), Returned(<<[source |-> "RiotAPI", len |-> 400]>>)}

\* One outcome of collect() for every collector of the list.
Harvests(cols) ==
    LET names == {cols[i] : i \in DOMAIN cols}
    IN {h \in [names -> UNION {Yields(n) : n \in CollectorNames}] :
           \A n \in names : h[n] \in Yields(n)}

\* _initialize_collectors: the constructors in `broken` raise, keyOk is
\* RiotAPICollector.validate()'s verdict.
InitializeCollectors(cfg, broken, keyOk) ==
    LET dd == IF cfg.use_data_dragon /\ "DataDragon" \notin broken
              THEN <<"DataDragon">> ELSE <<>>
        ws == IF cfg.use_web_scraper /\ "WebScraper" \notin broken
              THEN <<"WebScraper">> ELSE <<>>
        riot == IF cfg.use_riot_api /\ "RiotAPI" \notin broken /\ keyOk
                THEN <<"RiotAPI">> ELSE <<>>
        sample == IF cfg.use_sample_data THEN <<"SampleData">> ELSE <<>>
        made == dd \o ws \o riot \o sample
    IN IF made = <<>> THEN <<"SampleData">> ELSE made

\* The loop of get_documents: a collector that raises or returns nothing
\* adds nothing, any other extends all_documents.
RECURSIVE CollectAll(_, _, _)
CollectAll(cols, h, all_documents) ==
    IF cols = <<>> THEN all_documents
    ELSE LET y == h[Head(cols)]
         IN CollectAll(Tail(cols), h,
                       IF ~y.raised /\ y.docs # <<>> THEN all_documents \o y.docs
                       ELSE all_documents)

\* get_documents without its last step.
GetDocumentsNoFallback(cols, h) == Returned(CollectAll(cols, h, <<>>))

\* The loop of get_documents without its try: the first collector that
\* raises ends it.
RECURSIVE CollectUntilRaise(_, _, _)
CollectUntilRaise(cols, h, all_documents) ==
    IF cols = <<>> THEN Returned(all_documents)
    ELSE LET y == h[Head(cols)]
         IN IF y.raised THEN Raised
            ELSE CollectUntilRaise(Tail(cols), h, all_documents \o y.docs)

GetDocumentsAborting(cols, h) ==
    LET r == CollectUntilRaise(cols, h, <<>>)
    IN IF ~r.raised /\ r.docs = <<>> THEN Returned(SampleCollect) ELSE r

\* LoLDataCollector.get_documents.
GetDocuments(cols, h) ==
    LET all_documents == CollectAll(cols, h, <<>>)
    IN Returned(IF all_documents = <<>> THEN SampleCollect ELSE all_documents)

AllDocs == DataDragonDocs \cup WebScraperDocs \cup RiotDocs
               \cup {SampleCollect[i] : i \in DOMAIN SampleCollect}

\* The collector lists LoLDataCollector() builds in the service, over the
\* DataSourceConfigs that leave the Riot API collector off, as it is unless
\* USE_RIOT_API is set.
ServiceCollectors ==
    {InitializeCollectors(cfg, broken, FALSE) :
        cfg \in {c \in DataSourceConfigs : ~c.use_riot_api},
        broken \in SUBSET {"DataDragon", "WebScraper"}}

\* What get_documents() can return to DataPipeline.run: the documents of
\* every collector of the list that yields some, in collector order, and
\* the sample documents when none does; never the empty list.
Corpora == UNION {{GetDocuments(cols, h).docs : h \in Harvests(cols)} : cols \in ServiceCollectors}

\* DataSourceConfig's defaults, what the service runs with unless the
\* USE_* variables say otherwise.
DefaultConfig == [use_data_dragon |-> TRUE, use_web_scraper |-> TRUE,
                  use_riot_api |-> FALSE, use_sample_data |-> TRUE]

\* What get_documents() can return under the default configuration: the
\* sample documents, after what Data Dragon and the scraper yield.
DefaultCorpora ==
    UNION {{GetDocuments(cols, h).docs : h \in Harvests(cols)} :
              cols \in {InitializeCollectors(DefaultConfig, broken, FALSE) :
                           broken \in SUBSET {"DataDragon", "WebScraper"}}}

\* What a data_collector put in place of LoLDataCollector can return, as
\* the unit tests of DataPipeline patch it: a list of one document, a
\* blank one, or the empty list.
PatchedCorpora == {<<>>} \cup {<<[source |-> "SampleData", len |-> l]>> : l \in {0, 400}}

\* get_documents() with no network and the default configuration.
OfflineCorpus == SampleCollect

\* Values of PipelineJobRequest.sources.
SourceChoices == {None, Some(<<"WebScraper">>)}

\* RecursiveCharacterTextSplitter: the number of chunks of a text of length
\* len (blank text gives none; text longer than chunk_size is cut into
\* windows that overlap by chunk_overlap).
NumChunks(len) ==
    IF len = 0 THEN 0
    ELSE IF len <= ChunkSize THEN 1
    ELSE 1 + ((len - ChunkSize) + (ChunkSize - ChunkOverlap) - 1) \div (ChunkSize - ChunkOverlap)

ChunksOf(doc) == [i \in 1..NumChunks(doc.len) |-> [source |-> doc.source, len |-> doc.len, part |-> i]]

RECURSIVE SplitDocuments(_)
SplitDocuments(docs) ==
    IF docs = <<>> THEN <<>>
    ELSE ChunksOf(Head(docs)) \o SplitDocuments(Tail(docs))

AllChunks == UNION {{ChunksOf(d)[i] : i \in 1..NumChunks(d.len)} : d \in AllDocs}

\* The vector index: how many copies of each chunk the collection holds.
EmptyIndex == [c \in AllChunks |-> 0]

Occurrences(c, s) == Cardinality({i \in 1..Len(s) : s[i] = c})

AddDocuments(idx, splits) == [c \in AllChunks |-> idx[c] + Occurrences(c, splits)]

RECURSIVE SumOver(_, _)
SumOver(f, S) ==
    IF S = {} THEN 0
    ELSE LET x == CHOOSE y \in S : TRUE IN f[x] + SumOver(f, S \ {x})

IndexCount(idx) == SumOver(idx, AllChunks)

StaleIndex == AddDocuments(EmptyIndex, SplitDocuments(<<StaleDoc>>))

VARIABLES
    budget,      \* environment: collaborator failures still to come
    initEnv,     \* environment: what initialising a pipeline comes to, while it lasts
    corpus,      \* environment: what the collectors currently yield
    redisUp,     \* RedisClient.client is not None
    queue,       \* the Redis list pipeline_jobs, left end first
    db,          \* the pipeline_jobs table: job_id -> row
    pipeline,    \* the module-level pipeline object of main.py
    index,       \* the persisted Chroma collection
    pathExists,  \* os.path.exists(vector_db_path)
    svc,         \* lifespan position: boot, up
    nextId,      \* the next job id uuid4 will give
    wpc,         \* worker_process position
    nap,         \* seconds the worker sleeps for
    cur,         \* the job dict the worker holds
    hist,        \* history: statuses stored in each row, in order
    lastReq,     \* history: the last status a caller asked the table to store, and whether it was
    reqOf,       \* history: each job dict as its creator built it
    enqFailed,   \* history: jobs whose enqueue returned False
    escaped,     \* history: jobs whose run_pipeline_job raised
    handled,     \* history: jobs whose run_pipeline_job returned or raised
    enqOrder,    \* history: job dicts whose enqueue returned True, in order
    deqOrder,    \* history: job dicts dequeue returned, in order
    lastDeq,     \* history: the last dequeue call
    lastRun,     \* history: the last DataPipeline.run call
    collectors,  \* LoLDataCollector.collectors, by name, in order
    gathered,    \* history: the last get_documents call
    store,       \* the collection the retriever searches, in insertion order
    retriever,   \* the retriever object: its search_kwargs
    session,     \* st.session_state messages of the Streamlit app
    req,         \* the query being served: entry point and arguments
    qpc,         \* position of the query being served
    docs_used,   \* retrieval results the query being served has obtained, in order
    calls,       \* language-model calls the query being served has made, in order
    ai_msg,      \* the first model response of LoLRAGSystem.query
    pending,     \* tool calls of ai_msg not yet dispatched
    tool_results,\* LoLRAGSystem.query's tool_results list
    out,         \* history: how the last served query ended
    lastRetr,    \* history: the last retrieval a caller asked for by itself
    stop,        \* lifespan shutdown: no, requested, cancelled, down
    peer,        \* the worker_process loop of a second service instance on the same queue
    trail,       \* history: run_pipeline_job calls and what they raised, in order
    ui           \* st.session_state.messages of the ui-service

\* The data-pipeline service and its collaborators.
pipeVars == <<budget, initEnv, corpus, redisUp, queue, db, pipeline, index, pathExists, svc,
              nextId, wpc, nap, cur, hist, lastReq, reqOf, enqFailed, escaped,
              handled, enqOrder, deqOrder, lastDeq, lastRun>>

\* The aggregating collector.
collVars == <<collectors, gathered>>

\* The collection and the retriever of the query side.
retrVars == <<store, retriever, lastRetr>>

\* A query on its way through an entry point.
askVars == <<session, req, qpc, docs_used, calls, ai_msg, pending, tool_results, out>>

\* The shutdown of the data-pipeline service and a second worker loop.
loopVars == <<stop, peer, trail>>

\* The ui-service's session.
uiVars == <<ui>>

\* What the data-pipeline service's startup, handler and worker steps of
\* the first specifications never touch.
sideVars == <<collVars, retrVars, askVars, loopVars, uiVars>>

vars == <<pipeVars, sideVars>>

\* ------------------------------------------------------- environment sets
\* Each call of a collaborator succeeds or fails; a failure uses up budget.
DbOutcomes == BOOLEAN
RedisErrors == BOOLEAN
WriteOutcomes == BOOLEAN
CountOutcomes == BOOLEAN
\* DataPipeline(config) raises (ctor_fail), DataPipeline.initialize() raises
\* before it has its embeddings (init_fail), or it raises when it opens the
\* collection found at vector_db_path (load_fail).  A failing constructor
\* leaves pipeline None and is called again by the next job, so it fails as
\* long as the configuration is wrong (initEnv) or this once; a failing
\* initialize() leaves the pipeline object behind and is not called again.
InitOutcomes ==
    IF initEnv # "ok" THEN {initEnv}
    ELSE {"ok", "ctor_fail", "init_fail"} \cup (IF pathExists THEN {"load_fail"} ELSE {})
InitFailed(io) == IF io = "ok" \/ io = initEnv THEN 0 ELSE 1
CollectOutcomes == {"ok", "raise"}

Failed(ok) == IF ok THEN 0 ELSE 1

\* ------------------------------------------------------------------ JSON
JsonSources(s) == IF s = None THEN <<"null">> ELSE <<"[">> \o s[1] \o <<"]">>

JsonDumps(job) ==
    <<"job_id", <<"str", job.job_id>>,
      "sources", JsonSources(job.sources),
      "force_refresh", IF job.force_refresh THEN "true" ELSE "false">>

JsonLoads(s) ==
    [job_id |-> s[2][2],
     sources |-> IF s[4] = <<"null">> THEN None ELSE Some(SubSeq(s[4], 2, Len(s[4]) - 1)),
     force_refresh |-> (s[6] = "true")]

\* ----------------------------------------------------------- RedisClient
\* LPush pushing at the end RPop pops.
LPushRight(q, x) == q \o <<x>>

LPush(q, x) == <<x>> \o q

\* RPop handing out the right end without taking it off the list.
RPopKeeping(q) == IF q = <<>> THEN [val |-> None, q |-> q]
                  ELSE [val |-> Some(q[Len(q)]), q |-> q]

RPop(q) == IF q = <<>> THEN [val |-> None, q |-> q]
           ELSE [val |-> Some(q[Len(q)]), q |-> SubSeq(q, 1, Len(q) - 1)]
\* BRPOP returns the right end as soon as there is one, nil after the timeout.
BRPop(q, timeout) == RPop(q)

\* enqueue(queue_name, job): [ret, q]
Enqueue(q, up, err, job) ==
    IF ~up THEN [ret |-> FALSE, q |-> q]
    ELSE IF err THEN [ret |-> FALSE, q |-> q]
    ELSE [ret |-> TRUE, q |-> LPush(q, JsonDumps(job))]

\* Dequeue losing the popped element when the broker call fails.
DequeueLossy(q, up, err, timeout) ==
    IF ~up THEN [ret |-> None, q |-> q]
    ELSE IF err THEN [ret |-> None, q |-> RPop(q).q]
    ELSE LET r == IF timeout > 0 THEN BRPop(q, timeout) ELSE RPop(q)
         IN IF r.val = None THEN [ret |-> None, q |-> r.q]
            ELSE [ret |-> Some(JsonLoads(r.val[1])), q |-> r.q]

\* dequeue(queue_name, timeout): [ret, q]
Dequeue(q, up, err, timeout) ==
    IF ~up THEN [ret |-> None, q |-> q]
    ELSE IF err THEN [ret |-> None, q |-> q]
    ELSE LET r == IF timeout > 0 THEN BRPop(q, timeout) ELSE RPop(q)
         IN IF r.val = None THEN [ret |-> None, q |-> r.q]
            ELSE [ret |-> Some(JsonLoads(r.val[1])), q |-> r.q]

\* -------------------------------------------------------- DatabaseClient
NoRow == [status |-> "absent", result |-> None, error |-> None]

\* The table with its two histories.
Store == [db |-> db, hist |-> hist, lastReq |-> lastReq]

\* create_pipeline_job: INSERT ... ON CONFLICT (job_id) DO UPDATE SET status
CreatePipelineJob(st, ok, j, status) ==
    [db |-> IF ~ok THEN st.db
            ELSE [st.db EXCEPT ![j] =
                     IF @.status = "absent"
                     THEN [status |-> status, result |-> None, error |-> None]
                     ELSE [@ EXCEPT !.status = status]],
     hist |-> IF ok THEN [st.hist EXCEPT ![j] = Append(@, status)] ELSE st.hist,
     lastReq |-> [st.lastReq EXCEPT ![j] = [status |-> status, stored |-> ok]]]

\* UpdatePipelineJob writing the status column only.
UpdatePipelineJobStatusOnly(st, ok, j, status, result, error) ==
    LET hit == ok /\ st.db[j].status # "absent"
    IN [db |-> IF hit THEN [st.db EXCEPT ![j].status = status] ELSE st.db,
        hist |-> IF hit THEN [st.hist EXCEPT ![j] = Append(@, status)] ELSE st.hist,
        lastReq |-> [st.lastReq EXCEPT ![j] = [status |-> status, stored |-> hit]]]

\* update_pipeline_job: UPDATE ... SET status, result, error WHERE job_id
UpdatePipelineJob(st, ok, j, status, result, error) ==
    LET hit == ok /\ st.db[j].status # "absent"
    IN [db |-> IF hit
               THEN [st.db EXCEPT ![j] = [status |-> status, result |-> result, error |-> error]]
               ELSE st.db,
        hist |-> IF hit THEN [st.hist EXCEPT ![j] = Append(@, status)] ELSE st.hist,
        lastReq |-> [st.lastReq EXCEPT ![j] = [status |-> status, stored |-> hit]]]

\* ---------------------------------------------------------- DataPipeline
NoPipeline == [made |-> FALSE, embeddings |-> FALSE, vectorstore |-> FALSE]

\* initialize_pipeline: [pipeline, ok].  The global is assigned before
\* initialize() runs; initialize() sets the embeddings, then opens the
\* collection when the directory exists, so a failing open leaves the
\* embeddings set and no vector store.
InitializePipeline(p, io, pe) ==
    IF io = "ctor_fail" THEN [pipeline |-> p, ok |-> FALSE]
    ELSE IF io = "init_fail"
    THEN [pipeline |-> [made |-> TRUE, embeddings |-> FALSE, vectorstore |-> FALSE], ok |-> FALSE]
    ELSE IF io = "load_fail" /\ pe
    THEN [pipeline |-> [made |-> TRUE, embeddings |-> TRUE, vectorstore |-> FALSE], ok |-> FALSE]
    ELSE [pipeline |-> [made |-> TRUE, embeddings |-> TRUE, vectorstore |-> pe], ok |-> TRUE]

\* GET /health: "initializing" if pipeline is None else "healthy"
HealthStatus(p) == IF p.made THEN "healthy" ELSE "initializing"

\* What get_documents() hands to DataPipeline.run: the call takes no
\* argument, so the job's sources do not reach it.
CollectDocuments(sources, docs) == docs

\* NoDocuments with the check left out.
NoDocumentsUnchecked(docs) == FALSE

\* if not documents: raise ValueError("No documents collected")
NoDocuments(docs) == docs = <<>>

\* Chroma.from_documents into a directory that holds no collection yet, or
\* into the one found there.
CreateIndex(idx, splits) == AddDocuments(idx, splits)

\* RefreshIndex without the rmtree.
RefreshIndexKeeping(idx, splits) == AddDocuments(idx, splits)

\* shutil.rmtree(vector_db_path), then Chroma.from_documents.
RefreshIndex(idx, splits) == AddDocuments(EmptyIndex, splits)

\* AppendIndex skipping the chunks the collection already holds.
AppendIndexDedup(idx, splits) ==
    [c \in AllChunks |-> IF idx[c] > 0 THEN idx[c] ELSE Occurrences(c, splits)]

\* vectorstore.add_documents(splits)
AppendIndex(idx, splits) == AddDocuments(idx, splits)

\* The documents give no chunk: run() hands Chroma.from_documents or
\* add_documents the empty list all the same.
NoChunks(docs) == SplitDocuments(docs) = <<>>

\* What a failing index call costs.  With chunks and embeddings it fails
\* when the embeddings service or the store fails.  run() never looks at
\* self.embeddings or at the number of chunks: whether a call with
\* embedding=None (initialize() raised before setting them) or with no
\* chunk returns or raises is Chroma's to say, and it may do either with
\* everything working.
WriteFailed(p, docs, wo) ==
    IF NoChunks(docs) THEN 0 ELSE IF ~p.embeddings THEN 0 ELSE IF wo THEN 0 ELSE 1

\* DataPipeline.run(sources, force_refresh):
\* [ok, stage, docs, result, error, pipeline, index, pathExists].
\* `wo` says that the Chroma call of the run returns.
PipelineRun(p, idx, pe, co, docs0, wo, sources, fr) ==
    LET docs == CollectDocuments(sources, docs0)
        splits == SplitDocuments(docs)
        res == [documents |-> Len(docs), chunks |-> Len(splits)]
        fail(stage, msg, i, e) ==
            [ok |-> FALSE, stage |-> stage, docs |-> docs, result |-> None,
             error |-> Some(msg), pipeline |-> p, index |-> i, pathExists |-> e]
        done(i) ==
            [ok |-> TRUE, stage |-> "index", docs |-> docs, result |-> Some(res),
             error |-> None, pipeline |-> [p EXCEPT !.vectorstore = TRUE],
             index |-> i, pathExists |-> TRUE]
    IN IF co = "raise" THEN
           [ok |-> FALSE, stage |-> "collect", docs |-> <<>>, result |-> None,
            error |-> Some("collector error"), pipeline |-> p, index |-> idx,
            pathExists |-> pe]
       ELSE IF NoDocuments(docs) THEN fail("collect", "No documents collected", idx, pe)
       ELSE IF ~p.vectorstore THEN
           IF wo THEN done(CreateIndex(idx, splits))
           ELSE fail("index", "index write failed", idx, TRUE)
       ELSE IF fr THEN
           IF wo THEN done(RefreshIndex(idx, splits))
           ELSE fail("index", "index write failed", EmptyIndex, FALSE)
       ELSE
           IF wo THEN done(AppendIndex(idx, splits))
           ELSE fail("index", "index write failed", idx, pe)

\* FinishJob with the except clause also reached after the completed update.
FinishJobAgain(st, ok, j, r) ==
    IF r.ok
    THEN UpdatePipelineJob(UpdatePipelineJob(st, ok, j, "completed", r.result, None),
                           ok, j, "failed", None, Some("after completion"))
    ELSE UpdatePipelineJob(st, ok, j, "failed", None, r.error)

\* FinishJob writing nothing.
FinishJobSkipped(st, ok, j, r) == st

\* run_pipeline_job after pipeline.run: the update to completed with the
\* result, or in the except clause the update to failed with the error.
FinishJob(st, ok, j, r) ==
    IF r.ok THEN UpdatePipelineJob(st, ok, j, "completed", r.result, None)
    ELSE UpdatePipelineJob(st, ok, j, "failed", None, r.error)

\* What is kept of a request for a job: the job dict, who built it, and
\* for a request of POST /ingest whether the collection held nothing then.
Asked(job, by, idx) ==
    [job |-> job, by |-> by, empty |-> (by = "ingest" /\ IndexCount(idx) = 0)]

NoRun == [job |-> 0, force_refresh |-> FALSE, store |-> FALSE, collect |-> "none",
          ok |-> FALSE, stage |-> "none", docs |-> <<>>, result |-> None,
          before |-> EmptyIndex, after |-> EmptyIndex]

NoDeq == [by |-> "none", timeout |-> 0, cause |-> "none", ret |-> None, same |-> TRUE]

DeqCause(q, up, err) ==
    IF ~up THEN "down" ELSE IF err THEN "error" ELSE IF q = <<>> THEN "empty" ELSE "job"

\* What the service can find at vector_db_path when it starts: nothing, an
\* empty collection, or the collection an earlier process left.
DiskStates == {<<FALSE, EmptyIndex>>, <<TRUE, EmptyIndex>>, <<TRUE, StaleIndex>>}

\* ------------------------------------------------------------ questions
\* A question is a string over a letter and a blank.
MaxLen == 3
MinLength == 3
Chars == {" ", "a"}
Questions == UNION {[1..n -> Chars] : n \in 0..MaxLen}

\* The questions without a blank: what a search is asked.
Queries == UNION {[1..n -> {"a"}] : n \in 0..MaxLen}

RECURSIVE LStrip(_)
LStrip(s) == IF s # <<>> /\ Head(s) = " " THEN LStrip(Tail(s)) ELSE s

RECURSIVE RStrip(_)
RStrip(s) == IF s # <<>> /\ s[Len(s)] = " " THEN RStrip(SubSeq(s, 1, Len(s) - 1)) ELSE s

\* str.strip()
Strip(s) == RStrip(LStrip(s))

\* validate_question without the test of the length.
ValidateQuestionNonEmpty(question, min_length) ==
    IF question = <<>> THEN [is_valid |-> FALSE, error_msg |-> Some(<<"Question cannot be empty">>)]
    ELSE [is_valid |-> TRUE, error_msg |-> None]

\* src/src/utils/helpers.py validate_question
ValidateQuestion(question, min_length) ==
    IF question = <<>> THEN [is_valid |-> FALSE, error_msg |-> Some(<<"Question cannot be empty">>)]
    ELSE IF Len(Strip(question)) < min_length
         THEN [is_valid |-> FALSE,
               error_msg |-> Some(<<"Question must be at least ", ToString(min_length),
                                   " characters long">>)]
    ELSE [is_valid |-> TRUE, error_msg |-> None]

\* ------------------------------------------------------------- retrieval
\* Number of chunks the collection can hold.
MaxChunks == 4
\* Largest k a caller passes.
MaxK == 4
RetrievalK == 3

\* The champions the collection can hold chunks of, in sorted order: the
\* name and the role of the chunk's metadata, the role letter by letter.
Champions == <<[champion |-> <<"Ahri">>, role |-> <<"M", "a", "g", "e">>],
               [champion |-> <<"Garen">>, role |-> <<"F", "i", "g", "h", "t", "e", "r">>]>>

\* The champion chunk i is about, as a place in Champions; 0 for a chunk
\* whose metadata names no champion.
ChampionAt(i) == IF i % 3 = 0 THEN 0 ELSE IF i % 3 = 1 THEN 2 ELSE 1

\* A chunk of the collection: its text is one piece, naming the chunk.
Catalogue == [i \in 1..MaxChunks |->
                 [id |-> i, page_content |-> ToString(i), champion |-> ChampionAt(i)]]
Stores == {SubSeq(Catalogue, 1, n) : n \in 0..MaxChunks}

Min(a, b) == IF a < b THEN a ELSE b
Max(a, b) == IF a < b THEN b ELSE a

RECURSIVE Reverse(_)
Reverse(q) == IF q = <<>> THEN <<>> ELSE Reverse(Tail(q)) \o <<Head(q)>>

\* The order in which Chroma ranks the chunks of the collection for a
\* question is the library's, and nothing in the repository fixes it: a
\* search is handed one of the orders, and the order of insertion and its
\* reverse stand for them.
Rankings(cs) == {cs, Reverse(cs)}

\* Chroma similarity search with k results: the first k of the ranking.
SimilaritySearch(ranked, k) == SubSeq(ranked, 1, Min(k, Len(ranked)))

\* _create_retriever: as_retriever(search_kwargs={"k": retrieval_k})
CreateRetriever == [k |-> RetrievalK]

\* retriever.invoke(question), `ranked` being the search's ranking.
RetrieverInvoke(rt, ranked) == SimilaritySearch(ranked, rt.k)

\* What a caller passes for k: nothing, or any int, a negative one too
\* (k: int of POST /retrieve and k: Optional[int] of RAGQueryRequest have
\* no bound).
KArgs == {None} \cup {Some(k) : k \in (0 - MaxK)..MaxK}

\* `k or retrieval_k`: None and 0 give the configured value.
EffectiveK(k) == IF k = None \/ k = Some(0) THEN RetrievalK ELSE k[1]

\* docs[:k]: the first k, and for a negative k all but the last -k.
Slice(docs, k) ==
    IF k >= 0 THEN SubSeq(docs, 1, Min(k, Len(docs)))
    ELSE SubSeq(docs, 1, Max(Len(docs) + k, 0))

\* docs[:k] if len(docs) > k else docs
CutTo(docs, k) == IF Len(docs) > k THEN Slice(docs, k) ELSE docs

\* What retriever.invoke comes to: it returns a list, it returns something
\* that is no list, it raises AttributeError or TypeError, or it raises
\* another exception.
InvokeOutcomes == {"list", "other", "type_error", "error"}

\* What retriever.get_relevant_documents, the older API, comes to: it
\* raises, or it returns the documents of the retriever's search.
OlderOutcomes(rt, ranked) ==
    {[raised |-> TRUE, docs |-> <<>>], [raised |-> FALSE, docs |-> RetrieverInvoke(rt, ranked)]}

\* RAGServiceSystem.get_relevant_documents, and the same lines of
\* RAGServiceSystem.query: a list is cut, anything else is returned as it
\* is, an exception of invoke is raised again.
GetRelevantDocuments(rt, ranked, k, how) ==
    IF how \in {"type_error", "error"} THEN [raised |-> TRUE, docs |-> <<>>, retriever |-> rt]
    ELSE LET docs == RetrieverInvoke(rt, ranked)
         IN [raised |-> FALSE,
             docs |-> IF how = "list" THEN CutTo(docs, EffectiveK(k)) ELSE docs,
             retriever |-> rt]

\* LoLRAGSystem.get_relevant_documents: a list is cut; for anything else
\* the older API is called inside the try; AttributeError and TypeError
\* are answered by the older API, whose documents are returned uncut;
\* another exception leaves the method.  `older` is what the older API
\* comes to.
LoLGetRelevantDocuments(rt, ranked, k, how, older) ==
    IF how = "error" THEN [raised |-> TRUE, docs |-> <<>>, retriever |-> rt]
    ELSE IF how = "list"
    THEN [raised |-> FALSE, docs |-> CutTo(RetrieverInvoke(rt, ranked), EffectiveK(k)),
          retriever |-> rt]
    ELSE [raised |-> older.raised, docs |-> older.docs, retriever |-> rt]

NoRetr == [called |-> FALSE, by |-> "none", question |-> <<>>, k |-> None, store |-> <<>>,
           ranked |-> <<>>, how |-> "none", raised |-> FALSE, docs |-> <<>>, context |-> <<>>]

\* ------------------------------------------------------- format_documents
\* A text is a sequence of pieces; "\n" is a piece.
RECURSIVE Join(_, _)
Join(parts, sep) ==
    IF parts = <<>> THEN <<>>
    ELSE IF Len(parts) = 1 THEN parts[1]
    ELSE parts[1] \o sep \o Join(Tail(parts), sep)

\* format_documents numbering from 0.
FormatDocumentsFromZero(documents) ==
    IF documents = <<>> THEN <<"No relevant documents found.">>
    ELSE Join([i \in DOMAIN documents |->
                  <<"[Source ", ToString(i - 1), "]", "\n", documents[i].page_content, "\n">>], <<"\n">>)

\* src/src/utils/helpers.py format_documents, include_metadata=False
FormatDocuments(documents) ==
    IF documents = <<>> THEN <<"No relevant documents found.">>
    ELSE Join([i \in DOMAIN documents |->
                  <<"[Source ", ToString(i), "]", "\n", documents[i].page_content, "\n">>], <<"\n">>)

\* --------------------------------------------------------- LoLQAGraph
\* src/langgraph_workflow.py.  A message is a role and a content; a content
\* is a text of one line.
MaxTurns == 2
Roles == {"user", "assistant"}
Turns == {[role |-> "user", content |-> <<"a", "a", "a">>],
          [role |-> "assistant", content |-> <<"first">>],
          [role |-> "user", content |-> <<"a", " ", "a">>]}
Histories == UNION {[1..n -> Turns] : n \in 0..MaxTurns}

\* invoke: the history turns as HumanMessage / AIMessage, then the question.
InvokeMessages(question, conversation_history) ==
    SelectSeq(conversation_history, LAMBDA m : m.role \in Roles)
        \o <<[role |-> "user", content |-> question]>>

\* _extract_question
ExtractQuestion(messages) ==
    IF messages # <<>> THEN messages[Len(messages)].content ELSE <<>>

\* _generate_answer passing every message on as history.
HistoryMessagesAll(messages) == messages

\* _generate_answer: messages[:-1] if len(messages) > 1 else []
HistoryMessages(messages) ==
    IF Len(messages) > 1 THEN SubSeq(messages, 1, Len(messages) - 1) ELSE <<>>

\* _format_chat_history: a line of it always holds its prefix, so the text
\* is blank only when there is no message.
FormatChatHistory(messages) ==
    IF messages = <<>> THEN <<>>
    ELSE Join([i \in DOMAIN messages |->
                  <<IF messages[i].role = "assistant" THEN "Assistant: " ELSE "User: ">>
                      \o messages[i].content], <<"\n">>)

\* -------------------------------------------------------- LoLRAGSystem
\* src/rag_system.py.
MaxToolCalls == 2
Tools == <<"search_champion_info", "count_champions", "list_champions", "get_database_info">>

\* list_champions: limit: int = 20
DefaultLimit == 20

\* A tool call the model signals: a name and arguments that fit the tool's
\* schema or do not; role_filter and limit are the arguments of
\* count_champions and list_champions.
Call(name, args_ok, role_filter, limit) ==
    [name |-> name, args_ok |-> args_ok, role_filter |-> role_filter, limit |-> limit]

SearchCalls == {Call("search_champion_info", TRUE, <<>>, DefaultLimit),
                Call("search_champion_info", FALSE, <<>>, DefaultLimit),
                Call("no_such_tool", TRUE, <<>>, DefaultLimit)}
StoreCalls == {Call("get_database_info", TRUE, <<>>, DefaultLimit),
               Call("count_champions", TRUE, <<>>, DefaultLimit),
               Call("count_champions", TRUE, <<"m", "a", "g", "e">>, DefaultLimit),
               Call("list_champions", TRUE, <<>>, DefaultLimit),
               Call("list_champions", TRUE, <<>>, 0 - 1),
               Call("list_champions", FALSE, <<>>, DefaultLimit)}
ToolCalls == SearchCalls \cup StoreCalls

\* The calls of one response: any calls of the search tool and of a name
\* no tool has, or a call of another tool, alone or before one of those.
ToolPlans == UNION {[1..n -> SearchCalls] : n \in 0..MaxToolCalls}
                \cup {<<c>> : c \in StoreCalls}
                \cup {<<c, d>> : c \in StoreCalls, d \in SearchCalls}

\* What a model call comes to: it raises, or it answers.
FirstResponses == {[raised |-> TRUE, content |-> <<>>, tool_calls |-> <<>>]}
                    \cup {[raised |-> FALSE, content |-> <<"first">>, tool_calls |-> p] : p \in ToolPlans}
FinalResponses == {[raised |-> TRUE, content |-> <<>>],
                   [raised |-> FALSE, content |-> <<"final">>]}

\* query: prompt_text
PromptText(question, chat_history) ==
    IF chat_history # <<>>
    THEN <<"system_prompt", "\n", "Conversation History:", "\n">> \o chat_history
            \o <<"\n", "Current Question: ">> \o question
            \o <<"\n", "Think about which tool to use.">>
    ELSE <<"system_prompt", "\n", "Question: ">> \o question
            \o <<"\n", "Think about which tool to use.">>

\* query: final_prompt
FinalPrompt(results, question) ==
    <<"final_prompt", "\n", "Tool Results:", "\n">> \o Join(results, <<"\n", "\n">>)
        \o <<"\n", "User Question: ">> \o question \o <<"\n", "final_rules">>

\* search_champion_info: its body catches what the retriever raises.
SearchChampionInfo(rt, ranked, fails) ==
    IF fails THEN <<"Error searching: ", "retriever failed">>
    ELSE FormatDocuments(RetrieverInvoke(rt, ranked))

\* vectorstore.get(where={"type": "champion"}, limit=2000)['metadatas']:
\* the metadata of every champion chunk of the collection (a collection
\* here holds fewer chunks than the limit).
Metadatas(cs) ==
    LET found == SelectSeq(cs, LAMBDA c : c.champion # 0)
    IN [n \in DOMAIN found |-> Champions[found[n].champion]]

UpperCase == <<"A", "B", "C", "D", "E", "F", "G", "H", "I", "J", "K", "L", "M",
               "N", "O", "P", "Q", "R", "S", "T", "U", "V", "W", "X", "Y", "Z">>
LowerCase == <<"a", "b", "c", "d", "e", "f", "g", "h", "i", "j", "k", "l", "m",
               "n", "o", "p", "q", "r", "s", "t", "u", "v", "w", "x", "y", "z">>

\* str.lower(), letter by letter
Lower(text) ==
    [i \in DOMAIN text |->
        IF \E n \in DOMAIN UpperCase : UpperCase[n] = text[i]
        THEN LowerCase[CHOOSE n \in DOMAIN UpperCase : UpperCase[n] = text[i]]
        ELSE text[i]]

\* a in b
Within(a, b) == \E i \in 1..(Len(b) - Len(a) + 1) : SubSeq(b, i, i + Len(a) - 1) = a

\* `role_filter and role_filter.strip()`
HasFilter(role_filter) == role_filter # <<>> /\ Strip(role_filter) # <<>>

\* The set of champion names the two tools build from the metadatas, as
\* places in Champions: every champion without a filter, else those whose
\* role holds the filter, both in lower case.
UniqueChampions(metadatas, role_filter) ==
    {n \in DOMAIN Champions :
        \E m \in DOMAIN metadatas :
            /\ metadatas[m].champion = Champions[n].champion
            /\ HasFilter(role_filter) => Within(Lower(role_filter), Lower(metadatas[m].role))}

\* What vectorstore.get comes to in a tool: it returns the metadatas, it
\* raises, or it returns nothing to read them from.
ToolOutcomes == {"ok", "raises", "nothing"}

\* count_champions: its body catches what vectorstore.get raises.
CountChampions(cs, role_filter, how) ==
    IF how = "raises" THEN <<"Error counting champions: ", "store failed">>
    ELSE IF how = "nothing" THEN <<"Could not retrieve champion count">>
    ELSE LET count == Cardinality(UniqueChampions(Metadatas(cs), role_filter))
         IN IF HasFilter(role_filter)
            THEN <<"There are ", ToString(count), " ">> \o role_filter
                    \o <<" champions in League of Legends.">>
            ELSE <<"There are ", ToString(count), " champions in League of Legends.">>

\* list_champions: sorted(list(champions))[:limit], joined by ", ".
ListChampions(cs, role_filter, limit, how) ==
    IF how = "raises" THEN <<"Error listing champions: ", "store failed">>
    ELSE IF how = "nothing" THEN <<"Could not retrieve champions">>
    ELSE LET champions == UniqueChampions(Metadatas(cs), role_filter)
             sorted == SelectSeq([n \in DOMAIN Champions |-> n], LAMBDA n : n \in champions)
             champion_list == Slice(sorted, limit)
             names == Join([i \in DOMAIN champion_list |-> Champions[champion_list[i]].champion],
                           <<", ">>)
         IN IF HasFilter(role_filter)
            THEN role_filter \o <<" champions: ">> \o names
            ELSE <<"Champions: ">> \o names

\* get_database_info
GetDatabaseInfo ==
    <<"This database contains live League of Legends data from Riot Games' Data Dragon API (version 15.24.1). The data is current and includes all champions, their abilities, stats, skins, and other game information. The database is regularly updated with the latest game content.">>

\* The outcomes of its read of the collection that a call can meet: the
\* search tool reads through the retriever, count_champions and
\* list_champions through vectorstore.get, and get_database_info, a call
\* whose arguments do not fit and a name no tool has read nothing.
OutcomesOf(tc) ==
    IF ~tc.args_ok THEN {"ok"}
    ELSE IF tc.name = "search_champion_info" THEN {"ok", "raises"}
    ELSE IF tc.name \in {"count_champions", "list_champions"} THEN ToolOutcomes
    ELSE {"ok"}

\* tool.invoke(tool_args) once the arguments fit: the body of the tool of
\* that name, over the collection cs.
ToolBody(tc, rt, ranked, cs, how) ==
    IF tc.name = "search_champion_info" THEN SearchChampionInfo(rt, ranked, how = "raises")
    ELSE IF tc.name = "count_champions" THEN CountChampions(cs, tc.role_filter, how)
    ELSE IF tc.name = "list_champions" THEN ListChampions(cs, tc.role_filter, tc.limit, how)
    ELSE GetDatabaseInfo

\* One turn of the dispatch loop of query: the tool is looked up by name; a
\* name no tool has is passed over; tool.invoke validates the arguments
\* against the tool's schema before the body runs, and raises when they do
\* not fit.
DispatchTool(results, tc, rt, ranked, cs, how) ==
    IF \E i \in DOMAIN Tools : Tools[i] = tc.name
    THEN IF ~tc.args_ok
         THEN [raised |-> TRUE, results |-> results]
         ELSE [raised |-> FALSE,
               results |-> Append(results, <<tc.name, ": ">> \o ToolBody(tc, rt, ranked, cs, how))]
    ELSE [raised |-> FALSE, results |-> results]

\* query taking no response for a request for tools.
WantsToolsNever(resp) == FALSE

\* query: hasattr(ai_msg, 'tool_calls') and ai_msg.tool_calls
WantsTools(resp) == resp.tool_calls # <<>>

\* query answering with the first response when the final call fails.
FinalAnswerFallback(first, resp) ==
    IF resp.raised THEN [kind |-> "answer", value |-> first.content]
    ELSE [kind |-> "answer", value |-> resp.content]

\* query after the final call: the except clause raises again what the call
\* raised; otherwise the answer is the final response's content.
FinalAnswer(first, resp) ==
    IF resp.raised THEN [kind |-> "raised", value |-> <<"model call failed">>]
    ELSE [kind |-> "answer", value |-> resp.content]

NoReq == [entry |-> "none", question |-> <<>>, history |-> <<>>, k |-> None]
NoOut == [kind |-> "none", value |-> <<>>]
NoAiMsg == [raised |-> FALSE, content |-> <<>>, tool_calls |-> <<>>]

\* Outside their own specifications: the query side at rest.
RetrIdle ==
    /\ store = Catalogue
    /\ retriever = CreateRetriever
    /\ lastRetr = NoRetr

AskIdle ==
    /\ session = <<>>
    /\ req = NoReq
    /\ qpc = "idle"
    /\ docs_used = <<>>
    /\ calls = <<>>
    /\ ai_msg = NoAiMsg
    /\ pending = <<>>
    /\ tool_results = <<>>
    /\ out = NoOut

NoGather == [called |-> FALSE, collectors |-> <<>>, harvest |-> <<>>,
             raised |-> FALSE, docs |-> <<>>]

\* Outside the collector's own specification: one collector, never used.
CollIdle == collectors = <<"SampleData">> /\ gathered = NoGather

\* Outside their own specifications: no shutdown, no second worker loop,
\* no ui-service session.
PeerOff == [pc |-> "off", cur |-> None, pipeline |-> NoPipeline]
LoopIdle == stop = "no" /\ peer = PeerOff /\ trail = <<>>
NoUi == [pc |-> "idle", messages |-> <<>>, history |-> <<>>, question |-> <<>>]
UiIdle == ui = NoUi

SideIdle == CollIdle /\ RetrIdle /\ AskIdle /\ LoopIdle /\ UiIdle

\* ----------------------------------------------------------------- Init
InitOver(faults, lists) ==
    /\ redisUp \in BOOLEAN
    /\ initEnv \in {"ok", "ctor_fail"}
    /\ Failed(redisUp) + Failed(initEnv = "ok") <= faults
    /\ budget = faults - (Failed(redisUp) + Failed(initEnv = "ok"))
    /\ corpus \in lists
    /\ queue = <<>>
    /\ db = [j \in JobIds |-> NoRow]
    /\ pipeline = NoPipeline
    /\ \E disk \in DiskStates : pathExists = disk[1] /\ index = disk[2]
    /\ svc = "boot"
    /\ nextId = 1
    /\ wpc = "unborn"
    /\ nap = 0
    /\ cur = None
    /\ hist = [j \in JobIds |-> <<>>]
    /\ lastReq = [j \in JobIds |-> [status |-> "none", stored |-> FALSE]]
    /\ reqOf = [j \in JobIds |-> None]
    /\ enqFailed = {}
    /\ escaped = {}
    /\ handled = {}
    /\ enqOrder = <<>>
    /\ deqOrder = <<>>
    /\ lastDeq = NoDeq
    /\ lastRun = NoRun

InitWith(faults) == InitOver(faults, Corpora)

\* The service as deployed: the default configuration.
Init == InitOver(MaxFaults, DefaultCorpora) /\ SideIdle

\* ------------------------------------------------------------- lifespan
\* Startup: initialize_pipeline(raise_on_error=False), create the worker
\* task, and queue an ingestion job when the vector store is empty.
Lifespan ==
    /\ svc = "boot"
    /\ nextId <= MaxJobs
    /\ \E io \in InitOutcomes, cnt \in CountOutcomes, dbOk \in DbOutcomes, err \in RedisErrors :
        LET ini == InitializePipeline(pipeline, io, pathExists)
            p == ini.pipeline
            total_docs == IF p.vectorstore THEN IndexCount(index) ELSE 0
            auto == p.made /\ (p.vectorstore => cnt) /\ total_docs = 0
            job == [job_id |-> nextId, sources |-> None, force_refresh |-> FALSE]
            st == CreatePipelineJob(Store, dbOk, nextId, "queued")
            enq == Enqueue(queue, redisUp, err, job)
            cost == InitFailed(io) + Failed(cnt) + Failed(dbOk) + Failed(~err)
        IN /\ cost <= budget
           /\ budget' = budget - cost
           /\ pipeline' = p
           /\ db' = IF auto THEN st.db ELSE db
           /\ hist' = IF auto THEN st.hist ELSE hist
           /\ lastReq' = IF auto THEN st.lastReq ELSE lastReq
           /\ queue' = IF auto THEN enq.q ELSE queue
           /\ nextId' = IF auto THEN nextId + 1 ELSE nextId
           /\ reqOf' = IF auto THEN [reqOf EXCEPT ![nextId] = Some(Asked(job, "lifespan", index))]
                       ELSE reqOf
           /\ enqFailed' = IF auto /\ ~enq.ret THEN enqFailed \cup {nextId} ELSE enqFailed
           /\ enqOrder' = IF auto /\ enq.ret THEN Append(enqOrder, job) ELSE enqOrder
    /\ svc' = "up"
    /\ wpc' = "poll"
    /\ UNCHANGED <<initEnv, corpus, redisUp, index, pathExists, nap, cur, escaped,
                   handled, deqOrder, lastDeq, lastRun>>
    /\ UNCHANGED sideVars

\* -------------------------------------------------------- POST /ingest
\* `request: PipelineJobRequest = Body(default={})`: a POST with a body
\* gives the handler a PipelineJobRequest; a POST with none gives it the
\* declared default, a dict.  The row is created first; then, with the
\* dict, request.sources raises AttributeError, which handle_service_errors
\* turns into a 500: nothing is pushed and no status is written.
IngestData ==
    /\ svc = "up"
    /\ nextId <= MaxJobs
    /\ \E body \in BOOLEAN, sources \in SourceChoices, force_refresh \in BOOLEAN,
          dbOk1 \in DbOutcomes, dbOk2 \in DbOutcomes, err \in RedisErrors :
        LET job == [job_id |-> nextId, sources |-> sources, force_refresh |-> force_refresh]
            st1 == CreatePipelineJob(Store, dbOk1, nextId, "queued")
            enq == Enqueue(queue, redisUp, err, job)
            st2 == IF enq.ret THEN st1
                   ELSE UpdatePipelineJob(st1, dbOk2, nextId, "failed", None,
                                          Some("Redis enqueue failed"))
            cost == Failed(dbOk1) + Failed(dbOk2) + Failed(~err)
        IN IF body
           THEN /\ cost <= budget
                /\ budget' = budget - cost
                /\ db' = st2.db
                /\ hist' = st2.hist
                /\ lastReq' = st2.lastReq
                /\ queue' = enq.q
                /\ reqOf' = [reqOf EXCEPT ![nextId] = Some(Asked(job, "ingest", index))]
                /\ enqFailed' = IF enq.ret THEN enqFailed ELSE enqFailed \cup {nextId}
                /\ enqOrder' = IF enq.ret THEN Append(enqOrder, job) ELSE enqOrder
           ELSE /\ sources = None /\ ~force_refresh /\ dbOk2 /\ ~err
                /\ Failed(dbOk1) <= budget
                /\ budget' = budget - Failed(dbOk1)
                /\ db' = st1.db
                /\ hist' = st1.hist
                /\ lastReq' = st1.lastReq
                /\ UNCHANGED <<queue, reqOf, enqFailed, enqOrder>>
    /\ nextId' = nextId + 1
    /\ UNCHANGED <<initEnv, corpus, redisUp, pipeline, index, pathExists, svc, wpc,
                   nap, cur, escaped, handled, deqOrder, lastDeq, lastRun>>
    /\ UNCHANGED sideVars

\* ------------------------------------------------------ worker_process
\* job = redis_client.dequeue("pipeline_jobs", timeout=5); if job: ... else sleep(1)
DequeueFrom(pc) ==
    /\ svc = "up"
    /\ wpc = pc
    /\ \E err \in RedisErrors :
        LET r == Dequeue(queue, redisUp, err, WorkerTimeout)
        IN /\ Failed(~err) <= budget
           /\ budget' = budget - Failed(~err)
           /\ queue' = r.q
           /\ cur' = r.ret
           /\ wpc' = IF r.ret # None THEN "picked" ELSE "sleep"
           /\ nap' = IF r.ret # None THEN 0 ELSE PollSleep
           /\ deqOrder' = IF r.ret # None THEN Append(deqOrder, r.ret[1]) ELSE deqOrder
           /\ lastDeq' = [by |-> "worker", timeout |-> WorkerTimeout,
                          cause |-> DeqCause(queue, redisUp, err), ret |-> r.ret,
                          same |-> (r.q = queue)]
    /\ UNCHANGED <<initEnv, corpus, redisUp, db, pipeline, index, pathExists, svc,
                   nextId, hist, lastReq, reqOf, enqFailed, escaped, handled,
                   enqOrder, lastRun>>

WorkerDequeue == DequeueFrom("poll") /\ UNCHANGED sideVars

\* The worker loop ending on an exception.
AfterExceptionExit == "exited"

\* except Exception: log, await asyncio.sleep(5), and the loop goes on.
AfterException == "sleep"

\* run_pipeline_job up to "await pipeline.run": the deferred initialisation
\* (outside the try) and the update to running.
StartStep ==
    /\ svc = "up"
    /\ wpc = "picked"
    /\ \E io \in InitOutcomes, dbOk \in DbOutcomes :
        LET job == cur[1]
            ini == IF pipeline.made THEN [pipeline |-> pipeline, ok |-> TRUE]
                   ELSE InitializePipeline(pipeline, io, pathExists)
            st == UpdatePipelineJob(Store, dbOk, job.job_id, "running", None, None)
            cost == InitFailed(io) + Failed(dbOk)
        IN /\ cost <= budget
           /\ budget' = budget - cost
           /\ pipeline' = ini.pipeline
           /\ db' = IF ini.ok THEN st.db ELSE db
           /\ hist' = IF ini.ok THEN st.hist ELSE hist
           /\ lastReq' = IF ini.ok THEN st.lastReq ELSE lastReq
           /\ wpc' = IF ini.ok THEN "running" ELSE AfterException
           /\ nap' = IF ini.ok THEN 0 ELSE BackoffSleep
           /\ cur' = IF ini.ok THEN cur ELSE None
           /\ escaped' = IF ini.ok THEN escaped ELSE escaped \cup {job.job_id}
           /\ handled' = IF ini.ok THEN handled ELSE handled \cup {job.job_id}
    /\ UNCHANGED <<initEnv, corpus, redisUp, queue, index, pathExists, svc, nextId,
                   reqOf, enqFailed, enqOrder, deqOrder, lastDeq, lastRun>>

WorkerStart == StartStep /\ UNCHANGED sideVars

\* run_pipeline_job from "await pipeline.run" on: the run, then the update
\* to completed, or to failed in the except clause.
RunStep ==
    /\ svc = "up"
    /\ wpc = "running"
    /\ \E co \in CollectOutcomes, wo \in WriteOutcomes, dbOk \in DbOutcomes :
        LET job == cur[1]
            r == PipelineRun(pipeline, index, pathExists, co, corpus, wo,
                             job.sources, job.force_refresh)
            st == FinishJob(Store, dbOk, job.job_id, r)
            cost == Failed(co = "ok") + WriteFailed(pipeline, corpus, wo) + Failed(dbOk)
        IN /\ cost <= budget
           /\ budget' = budget - cost
           /\ pipeline' = r.pipeline
           /\ index' = r.index
           /\ pathExists' = r.pathExists
           /\ db' = st.db
           /\ hist' = st.hist
           /\ lastReq' = st.lastReq
           /\ handled' = handled \cup {job.job_id}
           /\ lastRun' = [job |-> job.job_id, force_refresh |-> job.force_refresh,
                          store |-> pipeline.vectorstore, collect |-> co, ok |-> r.ok,
                          stage |-> r.stage, docs |-> r.docs, result |-> r.result,
                          before |-> index, after |-> r.index]
    /\ wpc' = "poll"
    /\ cur' = None
    /\ UNCHANGED <<initEnv, corpus, redisUp, queue, svc, nextId, nap, reqOf,
                   enqFailed, escaped, enqOrder, deqOrder, lastDeq>>

WorkerRun == RunStep /\ UNCHANGED sideVars

\* await asyncio.sleep(1) or await asyncio.sleep(5) returns.
WakeStep ==
    /\ svc = "up"
    /\ wpc = "sleep"
    /\ wpc' = "poll"
    /\ nap' = 0
    /\ UNCHANGED <<budget, initEnv, corpus, redisUp, queue, db, pipeline, index, pathExists,
                   svc, nextId, cur, hist, lastReq, reqOf, enqFailed, escaped,
                   handled, enqOrder, deqOrder, lastDeq, lastRun>>

WorkerWake == WakeStep /\ UNCHANGED sideVars

Worker == WorkerDequeue \/ WorkerStart \/ WorkerRun \/ WorkerWake

Next == Lifespan \/ IngestData \/ WorkerDequeue \/ WorkerStart \/ WorkerRun \/ WorkerWake

Spec == Init /\ [][Next]_vars

\* ------------------------------------------- the queue's other clients
\* Any process holding a RedisClient may call enqueue and dequeue on the
\* list, with a blocking or a non-blocking dequeue.
Timeouts == {0, WorkerTimeout}

ClientEnqueue ==
    /\ nextId <= MaxJobs
    /\ \E sources \in SourceChoices, force_refresh \in BOOLEAN, err \in RedisErrors :
        LET job == [job_id |-> nextId, sources |-> sources, force_refresh |-> force_refresh]
            enq == Enqueue(queue, redisUp, err, job)
        IN /\ Failed(~err) <= budget
           /\ budget' = budget - Failed(~err)
           /\ queue' = enq.q
           /\ reqOf' = [reqOf EXCEPT ![nextId] = Some(Asked(job, "client", index))]
           /\ enqFailed' = IF enq.ret THEN enqFailed ELSE enqFailed \cup {nextId}
           /\ enqOrder' = IF enq.ret THEN Append(enqOrder, job) ELSE enqOrder
    /\ nextId' = nextId + 1
    /\ UNCHANGED <<initEnv, corpus, redisUp, db, pipeline, index, pathExists, svc, wpc,
                   nap, cur, hist, lastReq, escaped, handled, deqOrder, lastDeq, lastRun>>
    /\ UNCHANGED sideVars

ClientDequeue ==
    /\ \E timeout \in Timeouts, err \in RedisErrors :
        LET r == Dequeue(queue, redisUp, err, timeout)
        IN /\ Failed(~err) <= budget
           /\ budget' = budget - Failed(~err)
           /\ queue' = r.q
           /\ deqOrder' = IF r.ret # None THEN Append(deqOrder, r.ret[1]) ELSE deqOrder
           /\ lastDeq' = [by |-> "client", timeout |-> timeout,
                          cause |-> DeqCause(queue, redisUp, err), ret |-> r.ret,
                          same |-> (r.q = queue)]
    /\ UNCHANGED <<initEnv, corpus, redisUp, db, pipeline, index, pathExists, svc, nextId,
                   wpc, nap, cur, hist, lastReq, reqOf, enqFailed, escaped, handled,
                   enqOrder, lastRun>>
    /\ UNCHANGED sideVars

\* The failures are the broker's and the table's: a job taken off the list
\* runs without one.
QueueNext ==
    \/ Lifespan
    \/ IngestData
    \/ WorkerDequeue
    \/ WorkerStart /\ UNCHANGED budget
    \/ WorkerRun /\ UNCHANGED budget
    \/ WorkerWake
    \/ ClientEnqueue
    \/ ClientDequeue

\* The queue does not read the corpus or the index: one of each is enough.
LoopInit == Init /\ corpus = OfflineCorpus /\ ~pathExists

QueueInit == LoopInit /\ initEnv = "ok"

QueueSpec == QueueInit /\ [][QueueNext]_vars

\* --------------------------------------- every collaborator working
\* No failure is to come;
\* the event loop runs the startup and every step of the worker task that
\* can run.
LiveInit == InitWith(0) /\ SideIdle

LiveSpec == LiveInit /\ [][Next]_vars /\ WF_vars(Lifespan) /\ WF_vars(Worker)

\* ------------------------------------ the collector put out of the way
\* The service with DataPipeline.data_collector replaced, as the unit tests
\* replace it: get_documents() returns what the replacement is told to,
\* the empty list included.
PatchedInit == InitOver(MaxFaults, PatchedCorpora) /\ SideIdle

PatchedSpec == PatchedInit /\ [][Next]_vars

\* --------------------------------- the service's event loop and its end
\* worker_process is a task of the service's one event loop.  Its calls of
\* redis_client.dequeue (redis-py's blocking client), of the table and of
\* DataPipeline.run have no suspension point of their own: the task lets
\* the loop go only in its two asyncio.sleep calls.

\* The positions at which the worker task is suspended.
Suspended(pc) == pc = "sleep"

\* The loop can run another task: the worker task is suspended or is not
\* there.
LoopFree == Suspended(wpc) \/ wpc \in {"unborn", "exited"}

\* A worker that catches the cancellation like any exception.
OnCancelCaught == "sleep"

\* asyncio.CancelledError is not an Exception: `except Exception` lets it
\* through and worker_process ends.
OnCancel == "exited"

RunEvent(by, j, raised) == [ev |-> "run", by |-> by, job |-> j, raised |-> raised]
SignalEvent(j) == [ev |-> "signal", by |-> "server", job |-> j, raised |-> FALSE]

\* POST /ingest of this instance, run by the loop when it is free.
HandleIngest ==
    /\ LoopFree
    /\ stop \in {"no", "requested"}
    /\ IngestData

\* dequeue returns at once: the client is down, the call fails, or a job is
\* there.
LoopDequeue ==
    /\ DequeueFrom("poll")
    /\ lastDeq'.cause # "empty"
    /\ UNCHANGED sideVars

\* BRPOP on the empty list waits, up to the timeout, inside the call.
LoopBlock ==
    /\ svc = "up"
    /\ wpc = "poll"
    /\ redisUp
    /\ queue = <<>>
    /\ wpc' = "blocked"
    /\ UNCHANGED <<budget, initEnv, corpus, redisUp, queue, db, pipeline, index, pathExists,
                   svc, nextId, nap, cur, hist, lastReq, reqOf, enqFailed, escaped,
                   handled, enqOrder, deqOrder, lastDeq, lastRun>>
    /\ UNCHANGED sideVars

\* BRPOP returns: with the job another process pushed meanwhile, or with
\* nothing after the timeout.
LoopUnblock == DequeueFrom("blocked") /\ UNCHANGED sideVars

\* run_pipeline_job is entered for the job in hand.
LoopStart ==
    /\ StartStep
    /\ trail' = Append(trail, RunEvent("worker", cur[1].job_id, escaped' # escaped))
    /\ UNCHANGED <<collVars, retrVars, askVars, uiVars, stop, peer>>

LoopRun == RunStep /\ UNCHANGED sideVars

\* The sleep returns, unless the task was cancelled meanwhile.
LoopWake ==
    /\ stop # "cancelled"
    /\ WakeStep
    /\ UNCHANGED sideVars

\* The server is told to stop (a signal), at any time.
Signal ==
    /\ svc = "up"
    /\ stop = "no"
    /\ stop' = "requested"
    /\ trail' = Append(trail, SignalEvent(IF cur = None THEN 0 ELSE cur[1].job_id))
    /\ UNCHANGED <<pipeVars, collVars, retrVars, askVars, uiVars, peer>>

\* lifespan after its yield, run by the loop when it is free:
\* worker_task.cancel(), then await worker_task.
Shutdown ==
    /\ svc = "up"
    /\ stop = "requested"
    /\ wpc # "unborn"
    /\ LoopFree
    /\ stop' = "cancelled"
    /\ UNCHANGED <<pipeVars, collVars, retrVars, askVars, uiVars, peer, trail>>

\* The cancellation reaches the worker task where it is suspended.
LoopCancelled ==
    /\ stop = "cancelled"
    /\ Suspended(wpc)
    /\ wpc' = OnCancel
    /\ nap' = IF OnCancel = "sleep" THEN BackoffSleep ELSE 0
    /\ UNCHANGED <<budget, initEnv, corpus, redisUp, queue, db, pipeline, index, pathExists,
                   svc, nextId, cur, hist, lastReq, reqOf, enqFailed, escaped,
                   handled, enqOrder, deqOrder, lastDeq, lastRun>>
    /\ UNCHANGED sideVars

\* await worker_task raises CancelledError in lifespan, which ends.
ShutdownDone ==
    /\ stop = "cancelled"
    /\ wpc = "exited"
    /\ stop' = "down"
    /\ svc' = "down"
    /\ UNCHANGED <<budget, initEnv, corpus, redisUp, queue, db, pipeline, index, pathExists,
                   nextId, wpc, nap, cur, hist, lastReq, reqOf, enqFailed, escaped,
                   handled, enqOrder, deqOrder, lastDeq, lastRun>>
    /\ UNCHANGED <<collVars, retrVars, askVars, uiVars, peer, trail>>

LoopWorker == LoopDequeue \/ LoopBlock \/ LoopUnblock \/ LoopStart \/ LoopRun \/ LoopWake
                \/ LoopCancelled

\* The loop reads no field of a job but job_id: the requests are the plain
\* ones, PipelineJobRequest() with its defaults.
PlainRequests ==
    \A j \in JobIds :
        reqOf'[j] # None =>
            reqOf'[j][1].job.sources = None /\ ~reqOf'[j][1].job.force_refresh

LoopNext ==
    \/ Lifespan
    \/ HandleIngest /\ PlainRequests
    \/ ClientEnqueue /\ PlainRequests
    \/ LoopDequeue
    \/ LoopBlock
    \/ LoopUnblock
    \/ LoopStart
    \/ LoopRun
    \/ LoopWake
    \/ Signal
    \/ Shutdown
    \/ LoopCancelled
    \/ ShutdownDone


LoopSpec == LoopInit /\ [][LoopNext]_vars

\* The failure to come after the startup is a failing initialize_pipeline
\* in run_pipeline_job, the one exception that reaches worker_process:
\* Redis, the database, the collectors and the index directory work.
OnlyInitFails == budget' # budget => escaped' # escaped

LoopLiveNext ==
    \/ Lifespan /\ OnlyInitFails
    \/ HandleIngest /\ OnlyInitFails
    \/ ClientEnqueue /\ OnlyInitFails
    \/ LoopDequeue /\ OnlyInitFails
    \/ LoopBlock /\ OnlyInitFails
    \/ LoopUnblock /\ OnlyInitFails
    \/ LoopStart /\ OnlyInitFails
    \/ LoopRun /\ OnlyInitFails
    \/ LoopWake /\ OnlyInitFails
    \/ Signal /\ OnlyInitFails
    \/ Shutdown /\ OnlyInitFails
    \/ LoopCancelled /\ OnlyInitFails
    \/ ShutdownDone /\ OnlyInitFails

\* The loop runs the startup, every step of the worker task that can run,
\* and the end of the shutdown.
LoopLiveSpec == LoopInit /\ [][LoopLiveNext]_vars /\ WF_vars(Lifespan) /\ WF_vars(LoopWorker)

\* ------------------------------------ two worker loops on the same queue
\* A second instance of the service runs its own worker_process against
\* the same Redis list, the same table and the same index directory; its
\* client is connected and its pipeline object is still to be made.
PeerOn == [pc |-> "poll", cur |-> None, pipeline |-> NoPipeline]

PeerDequeue ==
    /\ peer.pc = "poll"
    /\ \E err \in RedisErrors :
        LET r == Dequeue(queue, TRUE, err, WorkerTimeout)
        IN /\ Failed(~err) <= budget
           /\ budget' = budget - Failed(~err)
           /\ queue' = r.q
           /\ peer' = [peer EXCEPT !.cur = r.ret,
                                   !.pc = IF r.ret # None THEN "picked" ELSE "sleep"]
           /\ deqOrder' = IF r.ret # None THEN Append(deqOrder, r.ret[1]) ELSE deqOrder
           /\ lastDeq' = [by |-> "peer", timeout |-> WorkerTimeout,
                          cause |-> DeqCause(queue, TRUE, err), ret |-> r.ret,
                          same |-> (r.q = queue)]
    /\ UNCHANGED <<initEnv, corpus, redisUp, db, pipeline, index, pathExists, svc,
                   nextId, wpc, nap, cur, hist, lastReq, reqOf, enqFailed, escaped, handled,
                   enqOrder, lastRun>>
    /\ UNCHANGED <<collVars, retrVars, askVars, uiVars, stop, trail>>

PeerStart ==
    /\ peer.pc = "picked"
    /\ \E io \in InitOutcomes, dbOk \in DbOutcomes :
        LET job == peer.cur[1]
            ini == IF peer.pipeline.made THEN [pipeline |-> peer.pipeline, ok |-> TRUE]
                   ELSE InitializePipeline(peer.pipeline, io, pathExists)
            st == UpdatePipelineJob(Store, dbOk, job.job_id, "running", None, None)
            cost == InitFailed(io) + Failed(dbOk)
        IN /\ cost <= budget
           /\ budget' = budget - cost
           /\ peer' = [pc |-> IF ini.ok THEN "running" ELSE AfterException,
                       cur |-> IF ini.ok THEN peer.cur ELSE None,
                       pipeline |-> ini.pipeline]
           /\ db' = IF ini.ok THEN st.db ELSE db
           /\ hist' = IF ini.ok THEN st.hist ELSE hist
           /\ lastReq' = IF ini.ok THEN st.lastReq ELSE lastReq
           /\ escaped' = IF ini.ok THEN escaped ELSE escaped \cup {job.job_id}
           /\ handled' = IF ini.ok THEN handled ELSE handled \cup {job.job_id}
           /\ trail' = Append(trail, RunEvent("peer", job.job_id, ~ini.ok))
    /\ UNCHANGED <<initEnv, corpus, redisUp, queue, pipeline, index, pathExists, svc, nextId,
                   wpc, nap, cur, reqOf, enqFailed, enqOrder, deqOrder, lastDeq, lastRun>>
    /\ UNCHANGED <<collVars, retrVars, askVars, uiVars, stop>>

PeerRun ==
    /\ peer.pc = "running"
    /\ \E co \in CollectOutcomes, wo \in WriteOutcomes, dbOk \in DbOutcomes :
        LET job == peer.cur[1]
            r == PipelineRun(peer.pipeline, index, pathExists, co, corpus, wo,
                             job.sources, job.force_refresh)
            st == FinishJob(Store, dbOk, job.job_id, r)
            cost == Failed(co = "ok") + WriteFailed(peer.pipeline, corpus, wo) + Failed(dbOk)
        IN /\ cost <= budget
           /\ budget' = budget - cost
           /\ peer' = [pc |-> "poll", cur |-> None, pipeline |-> r.pipeline]
           /\ index' = r.index
           /\ pathExists' = r.pathExists
           /\ db' = st.db
           /\ hist' = st.hist
           /\ lastReq' = st.lastReq
           /\ handled' = handled \cup {job.job_id}
           /\ lastRun' = [job |-> job.job_id, force_refresh |-> job.force_refresh,
                          store |-> peer.pipeline.vectorstore, collect |-> co, ok |-> r.ok,
                          stage |-> r.stage, docs |-> r.docs, result |-> r.result,
                          before |-> index, after |-> r.index]
    /\ UNCHANGED <<initEnv, corpus, redisUp, queue, pipeline, svc, nextId, wpc, nap, cur, reqOf,
                   enqFailed, escaped, enqOrder, deqOrder, lastDeq>>
    /\ UNCHANGED <<collVars, retrVars, askVars, uiVars, stop, trail>>

PeerWake ==
    /\ peer.pc = "sleep"
    /\ peer' = [peer EXCEPT !.pc = "poll"]
    /\ UNCHANGED <<pipeVars, collVars, retrVars, askVars, uiVars, stop, trail>>

\* The failures to come after the startup are those that touch the claim
\* of a job: a Redis error in a dequeue and a failing initialize_pipeline
\* in run_pipeline_job; the database and the collectors work.
ClaimFaultsOnly == budget' # budget => (lastDeq' # lastDeq \/ escaped' # escaped)

PoolNext ==
    \/ Lifespan /\ ClaimFaultsOnly
    \/ IngestData /\ ClaimFaultsOnly
    \/ WorkerDequeue /\ ClaimFaultsOnly
    \/ LoopStart /\ ClaimFaultsOnly
    \/ WorkerRun /\ ClaimFaultsOnly
    \/ WorkerWake /\ ClaimFaultsOnly
    \/ PeerDequeue /\ ClaimFaultsOnly
    \/ PeerStart /\ ClaimFaultsOnly
    \/ PeerRun /\ ClaimFaultsOnly
    \/ PeerWake /\ ClaimFaultsOnly

PoolInit ==
    /\ InitWith(MaxFaults)
    /\ corpus = OfflineCorpus
    /\ ~pathExists
    /\ CollIdle /\ RetrIdle /\ AskIdle /\ UiIdle
    /\ stop = "no"
    /\ trail = <<>>
    /\ peer = PeerOn

PoolSpec == PoolInit /\ [][PoolNext]_vars

\* ------------------------------------------------ the collector's callers
\* Number of collectors a caller puts in LoLDataCollector.collectors itself.
MaxCollectors == 2

\* The data-pipeline service at rest, for the specifications of the other
\* components.
PipeQuiet == /\ InitWith(0) /\ corpus = OfflineCorpus /\ ~pathExists
             /\ LoopIdle

\* Lists of distinct collector names.
CollectorLists == {l \in UNION {[1..n -> CollectorNames] : n \in 0..MaxCollectors} :
                      \A i, j \in DOMAIN l : i # j => l[i] # l[j]}

\* A caller replaces the list, as the unit tests do.
SetCollectors ==
    /\ collectors' \in CollectorLists
    /\ UNCHANGED <<pipeVars, loopVars, uiVars, gathered, retrVars, askVars>>

CallGetDocuments ==
    /\ \E h \in Harvests(collectors) :
        LET r == GetDocuments(collectors, h)
        IN gathered' = [called |-> TRUE, collectors |-> collectors, harvest |-> h,
                        raised |-> r.raised, docs |-> r.docs]
    /\ UNCHANGED <<pipeVars, loopVars, uiVars, collectors, retrVars, askVars>>

CollectNext == SetCollectors \/ CallGetDocuments

\* LoLDataCollector(): __init__ runs _initialize_collectors.
CollectInit ==
    /\ PipeQuiet
    /\ \E cfg \in DataSourceConfigs, broken \in SUBSET {"DataDragon", "WebScraper", "RiotAPI"},
          keyOk \in BOOLEAN :
          collectors = InitializeCollectors(cfg, broken, keyOk)
    /\ gathered = NoGather
    /\ RetrIdle
    /\ AskIdle
    /\ UiIdle

CollectSpec == CollectInit /\ [][CollectNext]_vars

\* ------------------------------------------------ retrieval by itself
\* k of POST /retrieve when the caller gives none.
RetrieveDefaultK == 3

\* The record of a retrieval: the call, the ranking its search went by,
\* what retriever.invoke came to and what the call returned.
RetrRecord(by, q, k, ranked, how, r, context) ==
    [called |-> TRUE, by |-> by, question |-> q, k |-> k, store |-> store,
     ranked |-> ranked, how |-> how, raised |-> r.raised, docs |-> r.docs,
     context |-> context]

\* POST /retrieve of the RAG service.
PostRetrieve ==
    /\ \E q \in Queries, k \in KArgs, ranked \in Rankings(store), how \in InvokeOutcomes :
        LET r == GetRelevantDocuments(retriever, ranked,
                                      IF k = None THEN Some(RetrieveDefaultK) ELSE k, how)
        IN /\ lastRetr' = RetrRecord("retrieve", q, k, ranked, how, r, <<>>)
           /\ retriever' = r.retriever
    /\ UNCHANGED <<pipeVars, loopVars, uiVars, collVars, store, askVars>>

\* LoLQAGraph._retrieve_context on a state holding a question.
RetrieveContext ==
    /\ \E q \in Queries, ranked \in Rankings(store), how \in InvokeOutcomes :
       \E older \in OlderOutcomes(retriever, ranked) :
        LET r == LoLGetRelevantDocuments(retriever, ranked, None, how, older)
        IN /\ how \in {"list", "error"} => ~older.raised
           /\ lastRetr' = RetrRecord("workflow", q, None, ranked, how, r,
                                     IF r.raised THEN <<>> ELSE FormatDocuments(r.docs))
           /\ retriever' = r.retriever
    /\ UNCHANGED <<pipeVars, loopVars, uiVars, collVars, store, askVars>>

\* The collection is written anew between two calls.
Reindex ==
    /\ store' \in Stores \ {store}
    /\ UNCHANGED <<pipeVars, loopVars, uiVars, collVars, retriever, lastRetr, askVars>>

RetrNext == PostRetrieve \/ RetrieveContext \/ Reindex

RetrInit ==
    /\ PipeQuiet
    /\ CollIdle
    /\ AskIdle
    /\ UiIdle
    /\ store \in Stores
    /\ retriever = CreateRetriever
    /\ lastRetr = NoRetr

RetrSpec == RetrInit /\ [][RetrNext]_vars

\* ------------------------------------------------ a query, step by step
\* One query is served at a time; the entry points are handle_user_input of
\* the Streamlit app, LoLQAGraph.invoke for any other caller, and POST /query
\* of the RAG service.

\* The messages LoLQAGraph.invoke puts in the workflow state.
Messages == InvokeMessages(req.question, req.history)

\* The histories a client of POST /query sends here.
ServiceHistories == {h \in Histories : Len(h) <= 1}
ServiceKs == {None, Some(0), Some(MaxK), Some(0 - 1)}

AskReset ==
    /\ docs_used' = <<>>
    /\ calls' = <<>>
    /\ ai_msg' = NoAiMsg
    /\ pending' = <<>>
    /\ tool_results' = <<>>

\* st.session_state messages once the query has ended: the app shows the
\* answer, or the error text, as the assistant's turn.
SessionAfter(kind, value) ==
    IF req.entry # "app" THEN session
    ELSE IF kind = "raised"
         THEN Append(session, [role |-> "assistant",
                               content |-> <<"Sorry, I encountered an error: ">> \o value])
    ELSE Append(session, [role |-> "assistant", content |-> value])

\* app.py handle_user_input up to process_query: an empty input is no
\* input; a question that fails validate_question is answered by a warning.
HandleUserInput ==
    /\ qpc = "idle"
    /\ ui = NoUi
    /\ Len(session) <= MaxTurns
    /\ \E q \in Questions :
        LET v == ValidateQuestion(q, MinLength)
        IN /\ req' = [entry |-> "app", question |-> q, history |-> session, k |-> None]
           /\ session' = IF q # <<>> /\ v.is_valid
                         THEN Append(session, [role |-> "user", content |-> q])
                         ELSE session
           /\ qpc' = IF q # <<>> /\ v.is_valid THEN "retrieve" ELSE "done"
           /\ out' = IF q = <<>> THEN [kind |-> "ignored", value |-> <<>>]
                     ELSE IF ~v.is_valid THEN [kind |-> "rejected", value |-> v.error_msg[1]]
                     ELSE [kind |-> "pending", value |-> <<>>]
    /\ AskReset
    /\ UNCHANGED <<pipeVars, loopVars, uiVars, collVars, retrVars>>

\* LoLQAGraph.invoke called by anyone else: a process without a Streamlit
\* session.
GraphInvoke ==
    /\ qpc = "idle"
    /\ session = <<>>
    /\ ui = NoUi
    /\ \E q \in Queries, h \in Histories :
          req' = [entry |-> "invoke", question |-> q, history |-> h, k |-> None]
    /\ qpc' = "retrieve"
    /\ out' = [kind |-> "pending", value |-> <<>>]
    /\ AskReset
    /\ UNCHANGED <<pipeVars, loopVars, uiVars, collVars, retrVars, session>>

\* The workflow's retrieve_context node, after extract_question.
NodeRetrieveContext ==
    /\ qpc = "retrieve"
    /\ \E ranked \in Rankings(store), how \in InvokeOutcomes :
       \E older \in OlderOutcomes(retriever, ranked) :
        LET r == LoLGetRelevantDocuments(retriever, ranked, None, how, older)
        IN /\ how \in {"list", "error"} => ~older.raised
           /\ retriever' = r.retriever
           /\ docs_used' = Append(docs_used, [raised |-> r.raised, docs |-> r.docs])
           /\ qpc' = IF r.raised THEN "done" ELSE "llm1"
           /\ out' = IF r.raised THEN [kind |-> "raised", value |-> <<"retrieval failed">>]
                     ELSE out
           /\ session' = IF r.raised THEN SessionAfter("raised", <<"retrieval failed">>)
                         ELSE session
    /\ UNCHANGED <<pipeVars, loopVars, uiVars, collVars, store, lastRetr, req, calls, ai_msg, pending,
                   tool_results>>

\* generate_answer and LoLRAGSystem.query up to the first model call.
CallLlmWithTools ==
    /\ qpc = "llm1"
    /\ \E resp \in FirstResponses :
        LET question == ExtractQuestion(Messages)
            chat_history == FormatChatHistory(HistoryMessages(Messages))
            direct == ~resp.raised /\ ~WantsTools(resp)
        IN /\ calls' = Append(calls, [model |-> "llm_with_tools",
                                      prompt |-> PromptText(question, chat_history),
                                      raised |-> resp.raised, reply |-> resp.content])
           /\ ai_msg' = resp
           /\ pending' = IF resp.raised THEN <<>> ELSE resp.tool_calls
           /\ qpc' = IF resp.raised \/ direct THEN "done" ELSE "tools"
           /\ out' = IF resp.raised THEN [kind |-> "raised", value |-> <<"model call failed">>]
                     ELSE IF direct THEN [kind |-> "answer", value |-> resp.content]
                     ELSE out
           /\ session' = IF resp.raised THEN SessionAfter("raised", <<"model call failed">>)
                         ELSE IF direct THEN SessionAfter("answer", resp.content)
                         ELSE session
    /\ UNCHANGED <<pipeVars, loopVars, uiVars, collVars, retrVars, req, docs_used, tool_results>>

\* One turn of the loop over ai_msg.tool_calls.
RunTool ==
    /\ qpc = "tools"
    /\ pending # <<>>
    /\ \E ranked \in Rankings(store), how \in OutcomesOf(Head(pending)) :
        LET tc == Head(pending)
            d == DispatchTool(tool_results, tc, retriever, ranked, store, how)
        IN /\ tool_results' = d.results
           /\ pending' = IF d.raised THEN pending ELSE Tail(pending)
           /\ qpc' = IF d.raised THEN "done" ELSE "tools"
           /\ out' = IF d.raised THEN [kind |-> "raised", value |-> <<"tool arguments invalid">>]
                     ELSE out
           /\ session' = IF d.raised THEN SessionAfter("raised", <<"tool arguments invalid">>)
                         ELSE session
    /\ UNCHANGED <<pipeVars, loopVars, uiVars, collVars, retrVars, req, docs_used, calls, ai_msg>>

\* The final-answer call of LoLRAGSystem.query.
CallLlmFinal ==
    /\ qpc = "tools"
    /\ pending = <<>>
    /\ \E resp \in FinalResponses :
        LET end == FinalAnswer(ai_msg, resp)
        IN /\ calls' = Append(calls, [model |-> "llm",
                                      prompt |-> FinalPrompt(tool_results, ExtractQuestion(Messages)),
                                      raised |-> resp.raised, reply |-> resp.content])
           /\ out' = end
           /\ session' = SessionAfter(end.kind, end.value)
    /\ qpc' = "done"
    /\ UNCHANGED <<pipeVars, loopVars, uiVars, collVars, retrVars, req, docs_used, ai_msg, pending, tool_results>>

\* POST /query of the RAG service, a process without a Streamlit session:
\* the request model takes any string.
PostQuery ==
    /\ qpc = "idle"
    /\ session = <<>>
    /\ ui = NoUi
    /\ \E q \in Questions, h \in ServiceHistories, k \in ServiceKs :
          req' = [entry |-> "service", question |-> q, history |-> h, k |-> k]
    /\ qpc' = "svc_retrieve"
    /\ out' = [kind |-> "pending", value |-> <<>>]
    /\ AskReset
    /\ UNCHANGED <<pipeVars, loopVars, uiVars, collVars, retrVars, session>>

\* RAGServiceSystem.query: retriever.invoke and the cut to k.
ServiceRetrieve ==
    /\ qpc = "svc_retrieve"
    /\ \E ranked \in Rankings(store), how \in InvokeOutcomes :
        LET r == GetRelevantDocuments(retriever, ranked, req.k, how)
        IN /\ retriever' = r.retriever
           /\ docs_used' = Append(docs_used, [raised |-> r.raised, docs |-> r.docs])
           /\ qpc' = IF r.raised THEN "done" ELSE "svc_chat"
           /\ out' = IF r.raised THEN [kind |-> "raised", value |-> <<"retrieval failed">>]
                     ELSE out
    /\ UNCHANGED <<pipeVars, loopVars, uiVars, collVars, store, lastRetr, session, req, calls, ai_msg, pending,
                   tool_results>>

\* RAGServiceSystem.query: the messages and llm_client.chat.
ServiceChat ==
    /\ qpc = "svc_chat"
    /\ \E resp \in FinalResponses :
        LET context == FormatDocuments(docs_used[Len(docs_used)].docs)
            more == ~resp.raised /\ req.k # None /\ req.k # Some(0)
        IN /\ calls' = Append(calls, [model |-> "llm_client",
                                      prompt |-> FormatChatHistory(req.history)
                                                   \o <<"\n", "system_message", "Context: ">>
                                                   \o context \o <<"\n", "user: ">>
                                                   \o req.question,
                                      raised |-> resp.raised, reply |-> resp.content])
           /\ ai_msg' = [raised |-> resp.raised, content |-> resp.content, tool_calls |-> <<>>]
           /\ qpc' = IF more THEN "svc_context" ELSE "done"
           /\ out' = IF resp.raised THEN [kind |-> "raised", value |-> <<"model call failed">>]
                     ELSE IF more THEN out
                     ELSE [kind |-> "answer", value |-> resp.content]
    /\ UNCHANGED <<pipeVars, loopVars, uiVars, collVars, retrVars, session, req, docs_used, pending, tool_results>>

\* POST /query: the context documents, fetched when the request has a k.
ServiceContext ==
    /\ qpc = "svc_context"
    /\ \E ranked \in Rankings(store), how \in InvokeOutcomes :
        LET r == GetRelevantDocuments(retriever, ranked, req.k, how)
        IN /\ retriever' = r.retriever
           /\ docs_used' = Append(docs_used, [raised |-> r.raised, docs |-> r.docs])
           /\ out' = IF r.raised THEN [kind |-> "raised", value |-> <<"retrieval failed">>]
                     ELSE [kind |-> "answer", value |-> ai_msg.content]
    /\ qpc' = "done"
    /\ UNCHANGED <<pipeVars, loopVars, uiVars, collVars, store, lastRetr, session, req, calls, ai_msg, pending,
                   tool_results>>

\* The entry point hands its result to its caller; what the ui-service
\* script waits for is handed over in UiAnswer.
Return ==
    /\ qpc = "done"
    /\ ui.pc # "posted"
    /\ qpc' = "idle"
    /\ req' = NoReq
    /\ out' = NoOut
    /\ AskReset
    /\ UNCHANGED <<pipeVars, loopVars, uiVars, collVars, retrVars, session>>

\* ---- the ui-service script (services/ui-service/main.py), step by step
\* An input arrives: the user message is appended, and the history for the
\* request is every message before it.  An empty input is no input.  One
\* query is served at a time: the input comes when the service is at rest.
UiAsk ==
    /\ ui.pc = "idle"
    /\ session = <<>>
    /\ qpc = "idle"
    /\ Len(ui.messages) <= MaxTurns
    /\ \E q \in Queries \ {<<>>} :
          ui' = [pc |-> "waiting",
                 messages |-> Append(ui.messages, [role |-> "user", content |-> q]),
                 history |-> ui.messages,
                 question |-> q]
    /\ UNCHANGED <<pipeVars, loopVars, collVars, retrVars, askVars>>

\* client.post: the request reaches POST /query of the RAG service, with
\* the question and the history and no k; the script waits for the answer.
UiPost ==
    /\ ui.pc = "waiting"
    /\ qpc = "idle"
    /\ ui' = [ui EXCEPT !.pc = "posted"]
    /\ req' = [entry |-> "service", question |-> ui.question, history |-> ui.history,
               k |-> None]
    /\ qpc' = "svc_retrieve"
    /\ out' = [kind |-> "pending", value |-> <<>>]
    /\ AskReset
    /\ UNCHANGED <<pipeVars, loopVars, collVars, retrVars, session>>

\* What the handler's end is to the script: a 200 with the answer, or the
\* 500 the handler makes of an exception (raise_for_status then raises
\* httpx.HTTPError).
UiResponse(o) ==
    IF o.kind = "answer" THEN [status |-> 200, answer |-> o.value]
    ELSE [status |-> 500, answer |-> <<>>]

\* The response arrives: the assistant message is appended when it is an
\* answer; the except clauses show the error and append nothing.
UiAnswer ==
    /\ ui.pc = "posted"
    /\ qpc = "done"
    /\ LET resp == UiResponse(out)
       IN ui' = [ui EXCEPT !.pc = "idle",
                           !.messages = IF resp.status = 200
                                        THEN Append(@, [role |-> "assistant",
                                                        content |-> resp.answer])
                                        ELSE @]
    /\ qpc' = "idle"
    /\ req' = NoReq
    /\ out' = NoOut
    /\ AskReset
    /\ UNCHANGED <<pipeVars, loopVars, collVars, retrVars, session>>

\* The wait ends with no response: the service cannot be reached or the
\* 60 seconds of the client pass (httpx.HTTPError), or Streamlit stops the
\* script for a rerun.  Nothing is appended; a request that reached the
\* service is served to its end there.
UiGiveUp ==
    /\ ui.pc \in {"waiting", "posted"}
    /\ ui' = [ui EXCEPT !.pc = "idle"]
    /\ UNCHANGED <<pipeVars, loopVars, collVars, retrVars, askVars>>

AskNext ==
    \/ HandleUserInput
    \/ GraphInvoke
    \/ NodeRetrieveContext
    \/ CallLlmWithTools
    \/ RunTool
    \/ CallLlmFinal
    \/ PostQuery
    \/ ServiceRetrieve
    \/ ServiceChat
    \/ ServiceContext
    \/ Return
    \/ UiAsk
    \/ UiPost
    \/ UiAnswer
    \/ UiGiveUp

AskInit == PipeQuiet /\ CollIdle /\ RetrIdle /\ AskIdle /\ UiIdle

AskSpec == AskInit /\ [][AskNext]_vars

\* ================================================================ claims
RECURSIVE IsSubseq(_, _)
IsSubseq(s, t) ==
    IF s = <<>> THEN TRUE
    ELSE IF t = <<>> THEN FALSE
    ELSE IF Head(s) = Head(t) THEN IsSubseq(Tail(s), Tail(t))
    ELSE IsSubseq(s, Tail(t))

IsPrefix(s, t) == Len(s) <= Len(t) /\ SubSeq(t, 1, Len(s)) = s

Terminal == {"completed", "failed"}

\* C1: the statuses stored in a job's row, in the order they were stored,
\* are a subsequence of queued, running, completed or of queued, running,
\* failed: no status regresses and no terminal status is overwritten.
C1_StatusMonotone ==
    \A j \in JobIds :
        \/ IsSubseq(hist[j], <<"queued", "running", "completed">>)
        \/ IsSubseq(hist[j], <<"queued", "running", "failed">>)

\* A job's row went through queued, running and failed.
C1_Witness ==
    \E j \in JobIds : hist[j] = <<"queued", "running", "failed">>

\* C2: once run_pipeline_job is over for a dequeued job, it has not raised
\* and the last status it asked the table to store is completed or failed.
C2_FailureRecorded ==
    \A j \in handled : j \notin escaped /\ lastReq[j].status \in Terminal

\* C3: a job whose enqueue returned False has been marked failed by the
\* caller of enqueue.
C3_EnqueueFailureMarked ==
    \A j \in enqFailed : lastReq[j].status = "failed"

\* C4: the job dicts dequeue has returned, in the order it returned them,
\* are the first of the job dicts enqueue accepted, in the order it
\* accepted them, each equal to the dict that was enqueued.
C4_Fifo == IsPrefix(deqOrder, enqOrder)

\* Two jobs came out in the order they went in, the second by a
\* non-blocking dequeue.
C4_Witness ==
    /\ Len(deqOrder) = 2
    /\ deqOrder[1] # deqOrder[2]
    /\ lastDeq.timeout = 0
    /\ lastDeq.ret = Some(enqOrder[2])

\* C5: a dequeue on an empty queue, without a client or with a failing
\* broker call returns None and leaves the queue as it was, whatever the
\* timeout; after such a None the worker sleeps one second and polls again.
C5_DequeueNone ==
    /\ lastDeq.cause \in {"empty", "down", "error"} => lastDeq.ret = None /\ lastDeq.same
    /\ (lastDeq.by = "worker" /\ lastDeq.ret = None) =>
           \/ wpc = "sleep" /\ nap = PollSleep /\ cur = None
           \/ wpc = "poll" /\ cur = None

\* The worker got None from a failing broker call while a job was waiting,
\* slept, and is about to poll again.
C5_Witness ==
    /\ lastDeq.by = "worker"
    /\ lastDeq.cause = "error"
    /\ queue # <<>>
    /\ wpc = "poll"

\* Every collector of the list returned its whole list: none raised, and
\* the scraper got both its pages.
Whole(name) == CHOOSE y \in Yields(name) : \A z \in Yields(name) : Len(z.docs) <= Len(y.docs)

WorkingCorpora ==
    {GetDocuments(cols, [n \in {cols[i] : i \in DOMAIN cols} |-> Whole(n)]).docs :
        cols \in ServiceCollectors}

\* The job was accepted by POST /ingest with force_refresh false while the
\* collection was empty, and the collectors work.
IngestedOnEmpty(j) ==
    /\ reqOf[j] # None
    /\ reqOf[j][1].by = "ingest"
    /\ ~reqOf[j][1].job.force_refresh
    /\ reqOf[j][1].empty
    /\ corpus \in WorkingCorpora

\* The job's row went from queued to running to completed, with a result
\* of at least one document and at least as many chunks as documents.
CompletedInFull(j) ==
    /\ db[j].status = "completed"
    /\ hist[j] = <<"queued", "running", "completed">>
    /\ db[j].result # None
    /\ db[j].result[1].documents >= 1
    /\ db[j].result[1].chunks >= db[j].result[1].documents

C7_EmptyCorpusFails ==
    (lastRun.job # 0 /\ lastRun.collect = "ok" /\ lastRun.docs = <<>>) =>
        /\ ~lastRun.ok
        /\ lastRun.stage = "collect"
        /\ lastRun.after = lastRun.before
        /\ index = lastRun.before
        /\ lastReq[lastRun.job].status = "failed"
        /\ lastReq[lastRun.job].stored => db[lastRun.job].status = "failed"
        /\ \A i \in 1..Len(hist[lastRun.job]) : hist[lastRun.job][i] # "completed"

\* A run that collected nothing left a populated index alone and its job
\* is failed.
C7_Witness ==
    /\ lastRun.job # 0
    /\ lastRun.collect = "ok"
    /\ lastRun.docs = <<>>
    /\ index # EmptyIndex
    /\ db[lastRun.job].status = "failed"

\* C8: after a completed run with force_refresh on an existing vector
\* store, the index holds exactly one copy of each chunk of the documents
\* just collected, and result.chunks is their number.
C8_RefreshRebuilds ==
    (lastRun.job # 0 /\ lastRun.ok /\ lastRun.force_refresh /\ lastRun.store) =>
        /\ index = lastRun.after
        /\ \A c \in AllChunks :
               lastRun.after[c] = Occurrences(c, SplitDocuments(lastRun.docs))
        /\ lastRun.result[1].chunks = IndexCount(lastRun.after)

\* The second of two force_refresh runs left the index the first had built.
C8_Witness ==
    /\ lastRun.job = 2
    /\ lastRun.ok
    /\ lastRun.force_refresh
    /\ lastRun.store
    /\ reqOf[1] # None
    /\ reqOf[1][1].job.force_refresh
    /\ lastRun.before = lastRun.after
    /\ lastRun.after # EmptyIndex

\* C9: after a completed run without force_refresh on an existing vector
\* store, the index holds every chunk it held before, as many times, plus
\* one more copy of each chunk of the run; it grew by result.chunks.
C9_AppendKeeps ==
    (lastRun.job # 0 /\ lastRun.ok /\ ~lastRun.force_refresh /\ lastRun.store) =>
        /\ index = lastRun.after
        /\ \A c \in AllChunks :
               lastRun.after[c] = lastRun.before[c] + Occurrences(c, SplitDocuments(lastRun.docs))
        /\ IndexCount(lastRun.after) = IndexCount(lastRun.before) + lastRun.result[1].chunks

\* A run without force_refresh left a second copy of a chunk.
C9_Witness ==
    /\ lastRun.job # 0
    /\ lastRun.ok
    /\ ~lastRun.force_refresh
    /\ lastRun.store
    /\ \E c \in AllChunks : lastRun.before[c] = 1 /\ lastRun.after[c] = 2

\* C10: the documents a run collected for a job that names sources all
\* come from the named sources.
C10_SourcesHonoured ==
    (lastRun.job # 0 /\ lastRun.collect = "ok" /\ reqOf[lastRun.job] # None) =>
        LET sources == reqOf[lastRun.job][1].job.sources
        IN sources # None =>
               \A i \in 1..Len(lastRun.docs) :
                   \E k \in 1..Len(sources[1]) : lastRun.docs[i].source = sources[1][k]

\* ---- C11: get_documents never returns an empty list, whatever is enabled
\* and whichever collectors raise or return nothing; when no collector of
\* the list yields a document, the result is the sample collector's list.
Barren(g, c) == g.harvest[c].raised \/ g.harvest[c].docs = <<>>

C11_NeverEmpty ==
    gathered.called =>
        /\ ~gathered.raised
        /\ Len(gathered.docs) >= 1
        /\ (\A i \in DOMAIN gathered.collectors : Barren(gathered, gathered.collectors[i]))
              => gathered.docs = SampleCollect

\* Every collector of a non-empty list without the sample collector
\* failed, and get_documents returned.
C11_Witness ==
    /\ gathered.called
    /\ gathered.collectors # <<>>
    /\ \A i \in DOMAIN gathered.collectors :
          /\ gathered.collectors[i] # "SampleData"
          /\ Barren(gathered, gathered.collectors[i])
    /\ \E i \in DOMAIN gathered.collectors : gathered.harvest[gathered.collectors[i]].raised

\* ---- C12: whichever collectors raise, get_documents does not raise; its
\* result holds every document of every collector that returned some, in
\* collector order, and nothing of a collector that raised.
PlaceOf(cols, name) == CHOOSE i \in DOMAIN cols : cols[i] = name

FromList(g, d) == \E i \in DOMAIN g.collectors : g.collectors[i] = d.source

C12_FailuresSkipped ==
    gathered.called =>
        LET cols == gathered.collectors
            docs == gathered.docs
        IN /\ ~gathered.raised
           /\ \A i \in DOMAIN cols :
                 /\ ~Barren(gathered, cols[i]) => IsSubseq(gathered.harvest[cols[i]].docs, docs)
                 /\ gathered.harvest[cols[i]].raised =>
                       \A n \in DOMAIN docs : docs[n].source # cols[i]
           /\ (\E i \in DOMAIN cols : ~Barren(gathered, cols[i])) =>
                 /\ \A n \in DOMAIN docs : FromList(gathered, docs[n]) /\ ~Barren(gathered, docs[n].source)
                 /\ \A m, n \in DOMAIN docs :
                       m < n => PlaceOf(cols, docs[m].source) <= PlaceOf(cols, docs[n].source)
                 /\ \A i \in DOMAIN cols :
                       Cardinality({n \in DOMAIN docs : docs[n].source = cols[i]})
                          = IF Barren(gathered, cols[i]) THEN 0
                            ELSE Len(gathered.harvest[cols[i]].docs)

\* A collector raised, a later one returned documents, and get_documents
\* returned.
C12_Witness ==
    /\ gathered.called
    /\ ~gathered.raised
    /\ \E i, j \in DOMAIN gathered.collectors :
          /\ i < j
          /\ gathered.harvest[gathered.collectors[i]].raised
          /\ ~Barren(gathered, gathered.collectors[j])
          /\ gathered.collectors[j] # "SampleData"

\* ---- C17: retrieval returns the min(k, N) most similar chunks, in
\* similarity order, for every k >= 1 the caller gives, and uses the
\* configured retrieval_k when the caller gives none.
C17_TopK ==
    (lastRetr.called /\ lastRetr.by = "retrieve" /\ ~lastRetr.raised /\ lastRetr.how = "list"
        /\ (lastRetr.k = None \/ lastRetr.k[1] >= 1)) =>
        LET k == IF lastRetr.k = None THEN RetrievalK ELSE lastRetr.k[1]
        IN lastRetr.docs = SubSeq(lastRetr.ranked, 1, Min(k, Len(lastRetr.store)))

\* ---- C18 is about the order Chroma's search returns on a repeated call.
\* That order is an input here (Rankings): a call repeated in the model
\* agrees with the first only if the same input is chosen twice, so no
\* formula over this model settles the claim either way.

\* ---- C19: format_documents gives one "[Source i]" entry per document,
\* numbered 1, 2, ... in the order of the list, each with its document's
\* text, and the fixed sentence for the empty list.
SourceMarks(text) == SelectSeq([p \in DOMAIN text |-> p], LAMBDA p : text[p] = "[Source ")

Entries(text) ==
    LET marks == SourceMarks(text)
    IN [n \in DOMAIN marks |-> <<text[marks[n] + 1], text[marks[n] + 4]>>]

C19_SourcesInOrder ==
    (lastRetr.called /\ lastRetr.by = "workflow" /\ ~lastRetr.raised) =>
        IF lastRetr.docs = <<>>
        THEN lastRetr.context = <<"No relevant documents found.">>
        ELSE Entries(lastRetr.context)
                = [i \in DOMAIN lastRetr.docs |-> <<ToString(i), lastRetr.docs[i].page_content>>]

\* Three documents were retrieved and formatted.
C19_Witness ==
    /\ lastRetr.called
    /\ lastRetr.by = "workflow"
    /\ Len(lastRetr.docs) = RetrievalK
    /\ lastRetr.context # <<>>

\* No document was retrieved, and the empty list was formatted.
C19_WitnessEmpty ==
    /\ lastRetr.called
    /\ lastRetr.by = "workflow"
    /\ ~lastRetr.raised
    /\ lastRetr.docs = <<>>

\* ---- C13: a query makes at most two language-model calls: one when the
\* first response asks for no tool, and its content is the answer; two when
\* it asks for tools, and the second call's content is the answer; the
\* second call is made without tools and no tool is dispatched after it.
C13_AtMostTwoCalls ==
    /\ Len(calls) <= 2
    /\ req.entry = "service" => Len(calls) <= 1
    /\ Len(calls) = 2 => calls[2].model = "llm" /\ qpc = "done" /\ pending = <<>>
    /\ (req.entry \in {"app", "invoke"} /\ out.kind = "answer") =>
          IF ai_msg.tool_calls = <<>>
          THEN Len(calls) = 1 /\ out.value = calls[1].reply
          ELSE Len(calls) = 2 /\ out.value = calls[2].reply
    /\ (req.entry = "service" /\ out.kind = "answer") =>
          Len(calls) = 1 /\ out.value = calls[1].reply

\* A query asked for two tools and was answered by its second call.
C13_Witness ==
    /\ req.entry \in {"app", "invoke"}
    /\ out.kind = "answer"
    /\ Len(ai_msg.tool_calls) = 2
    /\ Len(calls) = 2
    /\ out.value = <<"final">>

\* ---- C14: when a tool invoked during a query raises, the query goes on:
\* every signalled call to a tool of the list leaves an entry in the tool
\* results, the calls after it are dispatched, and the final call is made.
KnownTool(tc) == \E i \in DOMAIN Tools : Tools[i] = tc.name

C14_ToolFailureFolded ==
    (qpc = "done" /\ req.entry \in {"app", "invoke"} /\ ~ai_msg.raised /\ ai_msg.tool_calls # <<>>) =>
        /\ pending = <<>>
        /\ Len(tool_results) = Cardinality({i \in DOMAIN ai_msg.tool_calls : KnownTool(ai_msg.tool_calls[i])})
        /\ Len(calls) = 2

\* ---- C15: on handle_user_input and on POST /query, a question that is
\* empty or shorter than the minimum once stripped is turned away before
\* any retrieval or model call; a question long enough is never rejected.
ValidQuestion(q) == q # <<>> /\ Len(Strip(q)) >= MinLength

C15_ValidatedFirst ==
    req.entry \in {"app", "service"} =>
        IF ValidQuestion(req.question)
        THEN out.kind # "rejected"
        ELSE /\ docs_used = <<>>
             /\ calls = <<>>
             /\ qpc = "done" => out.kind \in {"rejected", "ignored"}

\* ---- C16: the prompt of a query with a history holds, before the
\* current question, one line per history turn, in order, "User: " or
\* "Assistant: " before its content, and no line for the current question;
\* the prompt of a query without history holds no history block.
PlaceIn(text, piece) == CHOOSE p \in DOMAIN text : text[p] = piece /\ \A r \in 1..(p - 1) : text[r] # piece

Holds(text, piece) == \E p \in DOMAIN text : text[p] = piece

RECURSIVE SplitLines(_)
SplitLines(text) ==
    IF ~Holds(text, "\n") THEN <<text>>
    ELSE LET p == PlaceIn(text, "\n")
         IN <<SubSeq(text, 1, p - 1)>> \o SplitLines(SubSeq(text, p + 1, Len(text)))

HistoryBlock(prompt) ==
    SubSeq(prompt, PlaceIn(prompt, "Conversation History:") + 2,
           PlaceIn(prompt, "Current Question: ") - 2)

TurnLine(m) == <<IF m.role = "user" THEN "User: " ELSE "Assistant: ">> \o m.content

C16_HistoryInPrompt ==
    (req.entry \in {"app", "invoke"} /\ calls # <<>>) =>
        LET prompt == calls[1].prompt
        IN IF req.history = <<>>
           THEN /\ ~Holds(prompt, "Conversation History:")
                /\ Holds(prompt, "Question: ")
                /\ SubSeq(prompt, PlaceIn(prompt, "Question: ") + 1,
                          PlaceIn(prompt, "Question: ") + Len(req.question)) = req.question
           ELSE /\ Holds(prompt, "Conversation History:")
                /\ Holds(prompt, "Current Question: ")
                /\ PlaceIn(prompt, "Conversation History:") < PlaceIn(prompt, "Current Question: ")
                /\ SplitLines(HistoryBlock(prompt)) = [i \in DOMAIN req.history |-> TurnLine(req.history[i])]
                /\ SubSeq(prompt, PlaceIn(prompt, "Current Question: ") + 1,
                          PlaceIn(prompt, "Current Question: ") + Len(req.question)) = req.question

\* A query with a history of a user turn and an assistant turn made its
\* first model call.
C16_Witness ==
    /\ req.entry \in {"app", "invoke"}
    /\ calls # <<>>
    /\ Len(req.history) = 2
    /\ req.history[1].role = "user"
    /\ req.history[2].role = "assistant"

\* ---- C20 as stated: whenever a retrieval or a model call raises during a
\* query, the query ends by raising and gives no answer.
SearchFailed(result) == \E p \in DOMAIN result : result[p] = "Error searching: "

C20_Original ==
    (qpc = "done" /\ \/ \E i \in DOMAIN docs_used : docs_used[i].raised
                     \/ \E i \in DOMAIN calls : calls[i].raised
                     \/ \E i \in DOMAIN tool_results : SearchFailed(tool_results[i])) =>
        out.kind = "raised"

\* ---- C20: when the retrieval step of an entry point or either model call
\* raises, the query ends by raising and gives no answer; when the final
\* call fails after the tools ran, the first response is not the answer.
C20_NoPartialAnswer ==
    (qpc = "done" /\ \/ \E i \in DOMAIN docs_used : docs_used[i].raised
                     \/ \E i \in DOMAIN calls : calls[i].raised) =>
        /\ out.kind = "raised"
        /\ out.value # ai_msg.content \/ ai_msg.raised

\* The tools ran and the final call raised.
C20_Witness ==
    /\ qpc = "done"
    /\ Len(calls) = 2
    /\ calls[2].raised
    /\ tool_results # <<>>
    /\ out.kind = "raised"

\* ---- C27: in the job table a completed row has a result and no error, a
\* failed row has an error and no result, a queued or running row has
\* neither.
C27_RowShape ==
    \A j \in JobIds :
        /\ db[j].status = "completed" => db[j].result # None /\ db[j].error = None
        /\ db[j].status = "failed" => db[j].error # None /\ db[j].result = None
        /\ db[j].status \in {"queued", "running"} => db[j].result = None /\ db[j].error = None

\* The table holds a completed row and a failed row.
C27_Witness ==
    \E j, k \in JobIds :
        /\ db[j].status = "completed" /\ db[j].result # None
        /\ db[k].status = "failed" /\ db[k].error # None

\* ---- C28: the module-level pipeline object is set only once
\* DataPipeline.initialize() has succeeded: when /health says healthy the
\* pipeline has its embeddings.
C28_PipelineReady ==
    HealthStatus(pipeline) = "healthy" => pipeline.embeddings

\* ---- C29: once a query whose first response asked for tools is over, the
\* tool results hold one entry "<name>: <result>" for each call of a
\* registered tool, in the order of the calls, none for another name, and
\* the final call has been made, also when there is no entry.
EntriesMatch(results, tcs) ==
    /\ Len(results) = Len(tcs)
    /\ \A i \in DOMAIN results :
          /\ Len(results[i]) > 2
          /\ results[i][1] = tcs[i].name
          /\ results[i][2] = ": "

C29_EntriesPerCall ==
    (qpc = "done" /\ req.entry \in {"app", "invoke"} /\ ~ai_msg.raised /\ ai_msg.tool_calls # <<>>) =>
        /\ EntriesMatch(tool_results, SelectSeq(ai_msg.tool_calls, KnownTool))
        /\ Len(calls) = 2
        /\ calls[2].model = "llm"

\* ---- C30: in both front-ends the stored messages alternate user and
\* assistant turns from a user turn on, whatever queries failed, and the
\* history sent with a query alternates too and ends before the current
\* question.
Alternating(ms) ==
    \A i \in DOMAIN ms : ms[i].role = IF i % 2 = 1 THEN "user" ELSE "assistant"

C30_Alternates ==
    /\ Alternating(session)
    /\ req.entry = "app" => Alternating(req.history) /\ Len(req.history) % 2 = 0
    /\ Alternating(ui.messages)
    /\ Alternating(ui.history) /\ Len(ui.history) % 2 = 0

\* ---- C22: the one worker of an instance calls dequeue only when
\* run_pipeline_job has returned or raised for every job it dequeued
\* before, so at most one job is asked to be, and is stored as, running.
Popped(j) == \E i \in DOMAIN deqOrder : deqOrder[i].job_id = j

InQueue(j) == \E i \in DOMAIN queue : JsonLoads(queue[i]).job_id = j

C22_OneAtATime ==
    /\ wpc \in {"poll", "blocked"} => \A j \in JobIds : Popped(j) => j \in handled
    /\ Cardinality({j \in JobIds : Popped(j) /\ j \notin handled}) <= 1
    /\ Cardinality({j \in JobIds : lastReq[j].status = "running"}) <= 1
    /\ Cardinality({j \in JobIds : db[j].status = "running" /\ lastReq[j].stored}) <= 1

\* The worker is running its second job after the first went through
\* running to its end.
C22_Witness ==
    /\ Len(deqOrder) = 2
    /\ wpc = "running"
    /\ db[deqOrder[2].job_id].status = "running"
    /\ hist[deqOrder[1].job_id] = <<"queued", "running", "completed">>

\* ---- C25: a stop never leaves a job half done: when worker_process has
\* ended, the worker holds no job, every job of the service it popped has
\* had completed or failed asked for it (none is left running or queued),
\* and so has a job that was in hand when the stop was asked for.  The
\* status is the one asked of the table (lastReq), so that a write the
\* database refuses does not count against the worker.
OwnJob(j) == reqOf[j] # None /\ reqOf[j][1].by \in {"lifespan", "ingest"}

C25_NoJobLeftMidRun ==
    /\ stop = "cancelled" => wpc \in {"sleep", "exited"}
    /\ wpc = "exited" =>
          /\ cur = None
          /\ \A j \in JobIds : (OwnJob(j) /\ Popped(j)) => lastReq[j].status \in Terminal
          /\ \A i \in DOMAIN trail :
                (trail[i].ev = "signal" /\ trail[i].job # 0 /\ OwnJob(trail[i].job)) =>
                    lastReq[trail[i].job].status \in Terminal

\* ---- C26: while the worker waits in its blocking dequeue or runs a job,
\* the loop can run a request handler of the instance: POST /ingest can
\* take its step.
C26_HandlersRun ==
    (svc = "up" /\ stop = "no" /\ nextId <= MaxJobs /\ wpc \in {"blocked", "running"}) =>
        ENABLED HandleIngest

\* ---- C23: when run_pipeline_job raises in an iteration, the worker
\* sleeps its back-off and polls again; worker_process ends only by
\* cancellation; and a job that lies in the queue after such an exception
\* is dequeued in the end, unless the service is told to stop.
C23_KeepsPolling ==
    /\ [](wpc = "exited" => stop \in {"cancelled", "down"})
    /\ [][escaped' # escaped => (wpc' = "sleep" /\ nap' = BackoffSleep /\ cur' = None)]_vars
    /\ [][(wpc = "sleep" /\ wpc' # "sleep" /\ stop = "no") => wpc' = "poll"]_vars
    /\ \A j \in JobIds : (escaped # {} /\ InQueue(j)) ~> (Popped(j) \/ stop # "no")

\* After a run_pipeline_job that raised, a job minted later was dequeued
\* and run.
C23_Witness ==
    /\ Len(deqOrder) = 2
    /\ deqOrder[1].job_id \in escaped
    /\ deqOrder[2].job_id \in handled
    /\ Len(trail) >= 2
    /\ trail[1].raised
    /\ trail[2].ev = "run"

\* ---- C24: once lifespan has cancelled the worker task, worker_process
\* ends; the step that ends it takes nothing from the queue, and when it
\* has ended the queue holds, in order, every accepted job that was not
\* dequeued.

Waiting == [i \in DOMAIN queue |-> JsonLoads(Reverse(queue)[i])]

C24_CancelKeepsJobs ==
    /\ (stop = "cancelled") ~> (wpc = "exited")
    /\ [][(wpc # "exited" /\ wpc' = "exited") => (queue' = queue /\ deqOrder' = deqOrder)]_vars
    /\ [](wpc = "exited" => deqOrder \o Waiting = enqOrder)

\* The worker has ended and a job it never popped is still in the queue.
C24_Witness ==
    /\ wpc = "exited"
    /\ stop \in {"cancelled", "down"}
    /\ queue # <<>>
    /\ deqOrder # <<>>

\* ---- C21: with two worker loops on the queue, dequeue hands each job to
\* one worker only, and run_pipeline_job is entered once at most for a
\* job id, by the worker dequeue gave it to.
C21_ClaimedOnce ==
    /\ \A i, k \in DOMAIN deqOrder : i # k => deqOrder[i].job_id # deqOrder[k].job_id
    /\ \A i, k \in DOMAIN trail : i # k => trail[i].job # trail[k].job
    /\ \A i \in DOMAIN trail : Popped(trail[i].job)
    /\ (cur # None /\ peer.cur # None) => cur[1].job_id # peer.cur[1].job_id

\* Each of the two workers has entered run_pipeline_job for a job.
C21_Witness ==
    /\ Len(deqOrder) = 2
    /\ \E i, k \in DOMAIN trail : trail[i].by = "worker" /\ trail[k].by = "peer"
    /\ cur # None
    /\ peer.cur # None

====
